---- MODULE Spec2Model ----
(***************************************************************************)
(* A model of angr's Unicorn state plugin                                  *)
(* (src/angr/state_plugins/unicorn_engine.py): the value classifier, the   *)
(* concretization policy, plugin merge, the thread-local emulator handle,  *)
(* the run controller (setup / start / finish / destroy), the register     *)
(* marshaller and the page bridge.                                         *)
(*                                                                         *)
(* Python's None is modelled as the empty set and a value n that may be    *)
(* None as {n}, so that None can be compared with everything.              *)
(***************************************************************************)
EXTENDS Integers, Sequences, FiniteSets, TLC

(***************************************************************************)
(* Bounds of the model.                                                    *)
(***************************************************************************)
\* cooldown settings are drawn from 1..MaxCooldown
MaxCooldown == 2
\* concretization thresholds are None or drawn from 0..MaxThreshold
MaxThreshold == 1
\* at most MaxReports blocker reports are made on one plugin
MaxReports == 3
\* ids are drawn from the global counter while it is below MaxId
MaxId == 7
\* the constraint log of one value identity is cut at MaxAdds entries
MaxAdds == 2
\* the bytes of a page (4096 in the source); addresses are scaled by it
PageSize == 2
\* 2^32 scaled: the two halves of a value written to an MSR are taken modulo it
HalfWord == 2
\* the pages of a range of the wide alignment (16 in the source)
WidePages == 2
\* at most MaxFaults page faults are served in one episode
MaxFaults == 1
\* at most MaxMuts entries in the native mutation list, each of 1..MaxMutLen bytes
MaxMuts == 2
MaxMutLen == 2
\* the fraction bits of a double (52 in the source); the mantissa of the
\* extended format has FracBits + 12 bits (64 in the source)
FracBits == 5
\* the x87 stack slots (8 in the source)
FpSlots == 2
\* the longest list of pages to un-cache
MaxUncache == 1

NoneVal == {}
Some(n) == {n}
IsNone(o) == o = {}
Get(o) == CHOOSE n \in o : TRUE

SetMax(S) == CHOOSE m \in S : \A n \in S : n <= m
SetMin(S) == CHOOSE m \in S : \A n \in S : m <= n

PlugIds == {"p", "q"}
VarNames == {"x", "y"}
Hashes == {"h1", "h2"}
InstAddrs == {64, 68}
Wheres == {"mem", "reg"}

OptionNames == {"UNICORN_AGGRESSIVE_CONCRETIZATION", "UNICORN_THRESHOLD_CONCRETIZATION",
                "UNICORN_SYM_REGS_SUPPORT", "UNICORN_ZEROPAGE_GUARD", "ENABLE_NX",
                "STRICT_PAGE_ACCESS", "CGC_ZERO_FILL_UNCONSTRAINED_MEMORY"}

\* class STOP
STOP_NORMAL == "STOP_NORMAL"
STOP_STOPPOINT == "STOP_STOPPOINT"
STOP_SYMBOLIC_MEM == "STOP_SYMBOLIC_MEM"
STOP_SYMBOLIC_REG == "STOP_SYMBOLIC_REG"
STOP_ERROR == "STOP_ERROR"
STOP_SYSCALL == "STOP_SYSCALL"
STOP_EXECNONE == "STOP_EXECNONE"
STOP_ZEROPAGE == "STOP_ZEROPAGE"
STOP_NOSTART == "STOP_NOSTART"
STOP_SEGFAULT == "STOP_SEGFAULT"
STOP_ZERO_DIV == "STOP_ZERO_DIV"
STOP_NODECODE == "STOP_NODECODE"
STOP == {STOP_NORMAL, STOP_STOPPOINT, STOP_SYMBOLIC_MEM, STOP_SYMBOLIC_REG, STOP_ERROR,
         STOP_SYSCALL, STOP_EXECNONE, STOP_ZEROPAGE, STOP_NOSTART, STOP_SEGFAULT,
         STOP_ZERO_DIV, STOP_NODECODE}

VARIABLES
    plug,        \* PlugIds -> the fields of each Unicorn plugin object
    options,     \* PlugIds -> the option set of the plugin's state
    ip,          \* PlugIds -> the instruction pointer of the plugin's state
    added,       \* PlugIds -> Hashes -> number of concretization constraints added
    unicounter,  \* the next value of the global _unicounter
    nrep,        \* PlugIds -> VarNames -> Wheres -> number of blocker reports made
    merged,      \* the plugins on which a merge has completed
    last,        \* the last operation: what it was called with and what it returned
    arch,        \* PlugIds -> the architecture of the plugin's state
    tls,         \* Threads -> _unicorn_tls.uc as each thread sees it
    nextObj,     \* the number of Uniwrapper objects constructed so far
    dropped,     \* the Uniwrapper objects that stopped being a thread's handle
    run,         \* PlugIds -> where the plugin's episode is, and on which thread
    native,      \* PlugIds -> what the native side holds for the episode
    regs,        \* PlugIds -> the register file of the plugin's state
    smem,        \* PlugIds -> the bytes of the symbolic memory of the plugin's state
    perms,       \* PlugIds -> the permissions of the pages of that memory, None: no page
    stdout,      \* PlugIds -> what has been written to file descriptor 1
    uc_native,   \* whether _UC_NATIVE is the loaded library; FALSE: it is None
    fpu,         \* PlugIds -> the x87 registers of the plugin's state
    shares,      \* the containers that are one object in both plugins
    libs         \* the SimLibrary objects, the dicts their mappings hold, the last call

polVars == <<plug, options, ip, added, unicounter, nrep, merged, last>>
runVars == <<arch, tls, nextObj, dropped, run, native, regs, smem, perms, stdout>>
envVars == <<uc_native, fpu, shares, libs>>
vars == <<polVars, runVars, envVars>>

(***************************************************************************)
(* Unicorn.__init__                                                        *)
(***************************************************************************)
\* what an instruction pointer read from the emulator can be: an instruction,
\* 0 (a new emulator instance) or 2 (the end of the code write_msr runs)
IpVals == InstAddrs \cup {0, 2}

CooldownKinds == {"nonunicorn_blocks", "symbolic_registers", "symbolic_memory", "stop_point"}

\* line 275: the default of max_steps
DefaultMaxSteps == 1000000

\* the system calls that can be hooked and the hooks
SysNos == {1, 2}
HookIds == {1, 2}

\* the fields that hold a dict, a set or a list
ContainerFields ==
    {"syscall_hooks", "symbolic_var_counts", "symbolic_inst_counts", "concretized_asts",
     "always_concretize", "never_concretize", "concretize_at", "uncache_pages"}

\* the plugin as the constructor leaves it; cd: the four cooldown arguments,
\* th: the three threshold arguments
UnicornInit(cd, th, never, cache_key, unicount) ==
    [ jumpkind |-> "Ijk_Boring",
      cache_key |-> cache_key,
      steps |-> 0,
      mapped |-> 0,
      uc_state |-> NoneVal,
      stop_reason |-> NoneVal,
      time |-> "none",
      cooldown_nonunicorn_blocks |-> cd.nonunicorn_blocks,
      cooldown_symbolic_registers |-> cd.symbolic_registers,
      cooldown_symbolic_memory |-> cd.symbolic_memory,
      cooldown_stop_point |-> cd.stop_point,
      countdown_nonunicorn_blocks |-> 0,
      countdown_symbolic_registers |-> 0,
      countdown_symbolic_memory |-> 0,
      countdown_stop_point |-> 0,
      unicount |-> unicount,
      symbolic_var_counts |-> [v \in VarNames |-> 0],
      symbolic_inst_counts |-> [a \in IpVals |-> 0],
      concretization_threshold_memory |-> th.memory,
      concretization_threshold_registers |-> th.registers,
      concretization_threshold_instruction |-> th.instruction,
      always_concretize |-> {},
      never_concretize |-> never,
      concretize_at |-> {},
      concretized_asts |-> {},
      max_steps |-> DefaultMaxSteps,
      uncache_pages |-> << >>,
      syscall_hooks |-> [n \in SysNos |-> NoneVal],
      transmit_addr |-> NoneVal,
      syscall_pc |-> NoneVal,
      trap_ip |-> NoneVal ]

DefaultCooldowns ==
    [nonunicorn_blocks |-> MaxCooldown, symbolic_registers |-> MaxCooldown,
     symbolic_memory |-> MaxCooldown, stop_point |-> 1]

NoThresholds == [memory |-> NoneVal, registers |-> NoneVal, instruction |-> NoneVal]

ThresholdVals == {NoneVal} \cup {Some(n) : n \in 0..MaxThreshold}

\* the values handed to the classifier: a hash (the identity), the free
\* variables (none: a concrete value), whether the value is annotated and,
\* in val, the value itself (concrete) or what the solver evaluates it to
Values ==
    { [hash |-> "h1", variables |-> {"x"}, annotated |-> FALSE, val |-> 1],
      [hash |-> "h2", variables |-> {"x", "y"}, annotated |-> FALSE, val |-> 1],
      [hash |-> "c", variables |-> {}, annotated |-> FALSE, val |-> 0],
      [hash |-> "h2", variables |-> {"y"}, annotated |-> TRUE, val |-> 1] }

Threads == {"t1", "t2"}
\* the architectures with a uc_mode: the two set_regs writes the flags of, one
\* more that has flags (vex_conditional_helpers) and one that has none
ArchNames == {"AMD64", "X86", "ARMEL", "MIPS32"}

\* the record of the last operation; pre is the plugin map before it. Of an
\* interrupt: intno, handled (what is_interrupt_handled returned), hooked (the
\* hook of syscall_hooks that was called on the state) and consulted (whether
\* syscall_hooks was looked at). Of a call of get_regs on a register file:
\* file0 and file (the bytes of the file before and after), emu (the bytes the
\* emulator has for them) and reported (the offsets the native side reported)
NoOp(pre) == [op |-> "none", self |-> "p", raised |-> FALSE, res |-> "none",
              hash |-> "h1", known |-> FALSE, others |-> {}, where |-> "mem",
              pre |-> pre, thread |-> "t1", tls0 |-> tls, regs0 |-> regs, smem0 |-> smem,
              ip0 |-> ip, run0 |-> run, fpu0 |-> fpu, native0 |-> native,
              stdout0 |-> stdout, stores |-> << >>, error |-> "none",
              access |-> "read", address |-> 0, calls |-> << >>, stops |-> << >>,
              passed |-> "none",
              value |-> [hash |-> "c", variables |-> {}, annotated |-> FALSE, val |-> 0],
              perms0 |-> perms, added0 |-> added,
              intno |-> 0, handled |-> FALSE, hooked |-> NoneVal, consulted |-> FALSE,
              file0 |-> << >>, file |-> << >>, emu |-> << >>, reported |-> {}]

\* the plugins after a handler of p has left self as u: what it did to a
\* container of sh, in place, is seen through the other plugin too
StorePlug(p, u, sh) ==
    IF sh = {} THEN [plug EXCEPT ![p] = u]
    ELSE [r \in PlugIds |->
             IF r = p THEN u
             ELSE [f \in DOMAIN plug[r] |-> IF f \in sh THEN u[f] ELSE plug[r][f]]]

(***************************************************************************)
(* Value classifier: _concretize, _symbolic_passthrough, _process_value    *)
(***************************************************************************)
\* _concretize: the equality constraint is added iff the value's hash is not recorded
ConcretizeAdds(u, d) == d.hash \notin u.concretized_asts

\* _concretize: the plugin afterwards (the hash is recorded with the constraint)
ConcretizePlug(u, d) ==
    IF ConcretizeAdds(u, d)
    THEN [u EXCEPT !.concretized_asts = @ \cup {d.hash}]
    ELSE u

\* a faulty variant of SymbolicPassthrough: never_concretize is looked at first
SymbolicPassthroughNeverFirst(u, opts, ipv, d) ==
    IF d.variables = {} THEN "same"
    ELSE IF d.variables \cap u.never_concretize # {} THEN "same"
    ELSE IF "UNICORN_AGGRESSIVE_CONCRETIZATION" \in opts THEN "concretize"
    ELSE IF d.variables \subseteq u.always_concretize THEN "concretize"
    ELSE IF ipv \in u.concretize_at THEN "concretize"
    ELSE "same"

\* _symbolic_passthrough: "same" (d is returned) or "concretize" (_concretize(d) is)
SymbolicPassthrough(u, opts, ipv, d) ==
    IF d.variables = {} THEN "same"
    ELSE IF "UNICORN_AGGRESSIVE_CONCRETIZATION" \in opts THEN "concretize"
    ELSE IF d.variables \cap u.never_concretize # {} THEN "same"
    ELSE IF d.variables \subseteq u.always_concretize THEN "concretize"
    ELSE IF ipv \in u.concretize_at THEN "concretize"
    ELSE "same"

\* _process_value: "refuse" (None), "concrete" (d itself, concrete), "concretized"
\* (the model value of d) or "symbolic" (d itself, symbolic, allowed in a register)
ProcessValue(u, opts, ipv, d, from_where) ==
    IF d.annotated THEN "refuse"
    ELSE IF d.variables = {} THEN "concrete"
    ELSE IF SymbolicPassthrough(u, opts, ipv, d) = "concretize" THEN "concretized"
    ELSE IF from_where = "reg" /\ "UNICORN_SYM_REGS_SUPPORT" \in opts THEN "symbolic"
    ELSE "refuse"

\* state.add_constraints(d == cd): one more entry in the log f of the state
LogConstraint(f, h) == [f EXCEPT ![h] = IF @ < MaxAdds THEN @ + 1 ELSE @]

\* one call of _process_value(d, from_where) on plugin p
ClassifyValue(p, d, from_where) ==
    LET u == plug[p]
        r == ProcessValue(u, options[p], ip[p], d, from_where)
        adds == r = "concretized" /\ ConcretizeAdds(u, d)
    IN  /\ plug' = StorePlug(p, IF r = "concretized" THEN ConcretizePlug(u, d) ELSE u, shares)
        /\ added' = [added EXCEPT ![p] = IF adds THEN LogConstraint(@, d.hash) ELSE @]
        /\ last' = [NoOp(plug) EXCEPT !.op = "classify", !.self = p, !.res = r,
                                      !.hash = d.hash, !.where = from_where,
                                      !.known = d.hash \in u.concretized_asts,
                                      !.value = d,
                                      !.passed =
                                          IF d.annotated \/ d.variables = {} THEN "none"
                                          ELSE SymbolicPassthrough(u, options[p], ip[p], d)]
        /\ UNCHANGED <<options, ip, unicounter, nrep, merged, runVars, envVars>>

(***************************************************************************)
(* Concretization policy: _report_symbolic_blocker                         *)
(***************************************************************************)
\* a faulty variant of Promote: the counter is compared after its increment
PromoteAfterIncrement(old_count, threshold) == old_count + 1 >= threshold

\* lines 638 and 652: the counter's value before the increment is compared
Promote(old_count, threshold) == old_count >= threshold

\* a faulty variant of ReportInstruction: the address is added by the report
\* that makes the counter reach the threshold
ReportInstructionOnReach(u, ipv) ==
    IF IsNone(u.concretization_threshold_instruction) THEN u
    ELSE LET count == u.symbolic_inst_counts[ipv] IN
         [u EXCEPT !.symbolic_inst_counts[ipv] = count + 1,
                   !.concretize_at =
                       IF count + 1 >= Get(u.concretization_threshold_instruction)
                       THEN @ \cup {ipv} ELSE @]

\* lines 633-639: the instruction counter
ReportInstruction(u, ipv) ==
    IF IsNone(u.concretization_threshold_instruction) THEN u
    ELSE LET count == u.symbolic_inst_counts[ipv] IN
         [u EXCEPT !.symbolic_inst_counts[ipv] = count + 1,
                   !.concretize_at =
                       IF Promote(count, Get(u.concretization_threshold_instruction))
                       THEN @ \cup {ipv} ELSE @]

\* lines 641-653: the counters of the value's variables
ReportVariables(u, d, from_where) ==
    LET threshold == IF from_where = "mem" THEN u.concretization_threshold_memory
                     ELSE u.concretization_threshold_registers
    IN  IF IsNone(threshold) THEN u
        ELSE [u EXCEPT !.symbolic_var_counts =
                           [v \in VarNames |-> IF v \in d.variables THEN @[v] + 1 ELSE @[v]],
                       !.always_concretize =
                           @ \cup {v \in d.variables :
                                      Promote(u.symbolic_var_counts[v], Get(threshold))}]

ReportSymbolicBlockerPlug(u, opts, ipv, d, from_where) ==
    IF "UNICORN_THRESHOLD_CONCRETIZATION" \in opts
    THEN ReportVariables(ReportInstruction(u, ipv), d, from_where)
    ELSE u

TotalReports(p) ==
    LET n == nrep[p] IN n["x"]["mem"] + n["x"]["reg"] + n["y"]["mem"] + n["y"]["reg"]

\* one call of _report_symbolic_blocker(d, from_where) on plugin p
ReportSymbolicBlocker(p, d, from_where) ==
    /\ TotalReports(p) + Cardinality(d.variables) <= MaxReports
    /\ plug' = StorePlug(p, ReportSymbolicBlockerPlug(plug[p], options[p], ip[p], d,
                                                      from_where), shares)
    /\ nrep' = [nrep EXCEPT ![p] =
                    [v \in VarNames |->
                        IF v \in d.variables
                        THEN [nrep[p][v] EXCEPT ![from_where] = @ + 1]
                        ELSE nrep[p][v]]]
    /\ last' = [NoOp(plug) EXCEPT !.op = "report", !.self = p, !.hash = d.hash,
                                  !.where = from_where]
    /\ UNCHANGED <<options, ip, added, unicounter, merged, runVars, envVars>>

\* the symbolic executor moves the state to another instruction
MoveIp(p, a) ==
    /\ ip[p] # a
    /\ ip' = [ip EXCEPT ![p] = a]
    /\ last' = [NoOp(plug) EXCEPT !.op = "move", !.self = p]
    /\ UNCHANGED <<plug, options, added, unicounter, nrep, merged, runVars, envVars>>

(***************************************************************************)
(* Unicorn.merge                                                           *)
(***************************************************************************)
\* max(self.x, max(o.x for o in others))
MergeMax(x, xs) == SetMax({x} \cup xs)

\* min(self.x, min(o.x for o in others)) raises TypeError when self's value or
\* an other's is None: the outer min always compares its two arguments
MergeMinRaises(x, xs) == IsNone(x) \/ \E o \in xs : IsNone(o)

MergeMin(x, xs) == Some(SetMin({Get(x)} \cup {Get(o) : o \in xs}))

\* lines 383-413: the cooldowns and countdowns that merge assigns, and the fresh id
MergeCooldowns(u, os, new_id) ==
    [u EXCEPT
        !.cooldown_nonunicorn_blocks = MergeMax(@, {o.cooldown_nonunicorn_blocks : o \in os}),
        !.cooldown_symbolic_registers = MergeMax(@, {o.cooldown_symbolic_registers : o \in os}),
        !.cooldown_symbolic_memory = MergeMax(@, {o.cooldown_symbolic_memory : o \in os}),
        !.countdown_nonunicorn_blocks = MergeMax(@, {o.countdown_nonunicorn_blocks : o \in os}),
        !.countdown_symbolic_registers = MergeMax(@, {o.countdown_symbolic_registers : o \in os}),
        !.countdown_symbolic_memory = MergeMax(@, {o.countdown_symbolic_memory : o \in os}),
        !.countdown_stop_point = MergeMax(@, {o.countdown_stop_point : o \in os}),
        !.unicount = new_id]

\* lines 421-432: the thresholds, assigned in order until a min raises
MergeThresholds(u, os) ==
    LET ms == {o.concretization_threshold_memory : o \in os}
        rs == {o.concretization_threshold_registers : o \in os}
        is == {o.concretization_threshold_instruction : o \in os}
        u1 == [u EXCEPT !.concretization_threshold_memory = MergeMin(@, ms)]
        u2 == [u1 EXCEPT !.concretization_threshold_registers = MergeMin(@, rs)]
        u3 == [u2 EXCEPT !.concretization_threshold_instruction = MergeMin(@, is)]
    IN  IF MergeMinRaises(u.concretization_threshold_memory, ms)
        THEN [plug |-> u, raised |-> TRUE]
        ELSE IF MergeMinRaises(u.concretization_threshold_registers, rs)
        THEN [plug |-> u1, raised |-> TRUE]
        ELSE IF MergeMinRaises(u.concretization_threshold_instruction, is)
        THEN [plug |-> u2, raised |-> TRUE]
        ELSE [plug |-> u3, raised |-> FALSE]

\* a faulty variant of MergePolicySet: the set keeps what all others have too
MergePolicySetCommon(s, others) == {v \in s : \A o \in others : v \in o}

\* lines 436-438: s.union(*others) builds a new set, which the statement drops;
\* the plugin's set is what it was
MergePolicySet(s, others) ==
    LET result == s \cup UNION others IN s

\* a faulty variant of MergeConcretizedAsts: the record is intersected in place
MergeConcretizedAstsInPlace(s, others) == {h \in s : \A o \in others : h \in o}

\* line 441: s.intersection(*others) builds a new set, which the statement drops
MergeConcretizedAsts(s, others) ==
    LET result == {h \in s : \A o \in others : h \in o} IN s

\* lines 434-441
MergeSets(u, os) ==
    [u EXCEPT
        !.always_concretize = MergePolicySet(@, {o.always_concretize : o \in os}),
        !.never_concretize = MergePolicySet(@, {o.never_concretize : o \in os}),
        !.concretize_at = MergePolicySet(@, {o.concretize_at : o \in os}),
        !.concretized_asts = MergeConcretizedAsts(@, {o.concretized_asts : o \in os})]

\* p.merge(others, ...): when a min raises, what was assigned before stays assigned
Merge(p, others) ==
    LET os == {plug[o] : o \in others}
        t == MergeThresholds(MergeCooldowns(plug[p], os, unicounter), os)
    IN  /\ others # {}
        /\ p \notin others
        /\ unicounter < MaxId
        /\ unicounter' = unicounter + 1
        /\ plug' = [plug EXCEPT ![p] = IF t.raised THEN t.plug ELSE MergeSets(t.plug, os)]
        /\ merged' = IF t.raised THEN merged ELSE merged \cup {p}
        /\ last' = [NoOp(plug) EXCEPT !.op = "merge", !.self = p, !.others = others,
                                      !.raised = t.raised]
        /\ UNCHANGED <<options, ip, added, nrep, runVars, envVars>>

(***************************************************************************)
(* Uniwrapper and the thread-local handle: Unicorn.uc, delete_uc           *)
(***************************************************************************)
\* the registers of the symbolic state that the model follows; rax, rcx and rdx
\* stand for the general registers of every architecture, fs and gs are blacklisted
StateRegNames == {"rax", "rcx", "rdx", "fs", "gs", "eflags"}
\* arch.uc_regs, in the order the loops of set_regs and get_regs visit it
UcRegOrder == <<"rax", "rcx", "rdx", "rip", "fs", "gs">>
\* reg_blacklist, as far as it names registers of the model
reg_blacklist == {"fs", "gs"}
\* the registers of the emulator
EmuRegNames == {"rax", "rcx", "rdx", "rip", "eflags", "fs_base", "gs_base"}

\* the x87 stack slots
FpSlotIds == 0..(FpSlots - 1)

\* the x87 registers of a new emulator instance: the control, status and tag
\* words and per slot the two fields of uc_x86_float80
NewFp ==
    [fpcw |-> 0, fpsw |-> 0, fptag |-> 0,
     st |-> [i \in FpSlotIds |-> [mantissa |-> 0, exponent |-> 0]]]

\* a concrete value n
ConcVal(n) == [hash |-> "c", variables |-> {}, annotated |-> FALSE, val |-> n]

\* the pages and addresses of the model: two ranges of the wide alignment
Pages == 0..(2 * WidePages - 1)
MemAddrs == 0..(2 * WidePages * PageSize - 1)

\* no handle: the thread's attribute is unset or None. mapped: the pages
\* the emulator instance has mapped by calls of the handle; wrapped_mapped and
\* hooks: the sets wrapped_mapped and wrapped_hooks of the handle
NoHandle ==
    [obj |-> 0, arch |-> "none", cache_key |-> "none", id |-> NoneVal,
     mapped |-> {}, wrapped_mapped |-> {}, hooks |-> {},
     regs |-> [r \in EmuRegNames |-> 0], fp |-> NewFp]

\* Uniwrapper.__init__: a new emulator instance, the obj-th constructed
Uniwrapper(obj, a, cache_key) ==
    [obj |-> obj, arch |-> a, cache_key |-> cache_key, id |-> NoneVal,
     mapped |-> {}, wrapped_mapped |-> {}, hooks |-> {},
     regs |-> [r \in EmuRegNames |-> 0], fp |-> NewFp]

\* _reuse_unicorn
ReuseUnicorn(a) == a # "MIPS32"

\* the pages of the region [addr, addr + size)
RegionPages(addr, size) ==
    {g \in Pages : addr <= g * PageSize /\ g * PageSize < addr + size}

\* the pages of the regions of the set S
PagesOfRegions(S) == UNION {RegionPages(r.addr, r.size) : r \in S}

\* a faulty variant of MemMap: the region is not added to wrapped_mapped
MemMapUntracked(h, addr, size) == [h EXCEPT !.mapped = @ \cup RegionPages(addr, size)]

\* Uniwrapper.mem_map, when unicorn.Uc.mem_map returns (it raises over a page
\* that is mapped, and then nothing is added)
MemMap(h, addr, size) ==
    [h EXCEPT !.mapped = @ \cup RegionPages(addr, size),
              !.wrapped_mapped = @ \cup {[addr |-> addr, size |-> size]}]

\* Uniwrapper.mem_reset: every region of wrapped_mapped is unmapped and the
\* set is cleared
MemReset(h) ==
    [h EXCEPT !.mapped = @ \ PagesOfRegions(h.wrapped_mapped), !.wrapped_mapped = {}]

\* Uniwrapper.hook_add
HookAdd(h, hk) == [h EXCEPT !.hooks = @ \cup {hk}]

\* a faulty variant of HandleReset: the regions stay mapped
HandleResetKeeps(h) == h

\* Uniwrapper.reset: mem_reset only, the hooks stay
HandleReset(h) == MemReset(h)

\* Uniwrapper.hook_reset
HookReset(h) == [h EXCEPT !.hooks = {}]

\* a faulty variant of UcConstructs: a handle with another cache key is reused
UcConstructsSameArch(h, u, a) ==
    \/ h.obj = 0
    \/ h.arch # a
    \/ (h.id # Some(u.unicount) /\ ~ReuseUnicorn(a))

\* the property uc, lines 476-481: a new Uniwrapper is constructed
UcConstructs(h, u, a) ==
    \/ h.obj = 0
    \/ h.arch # a
    \/ h.cache_key # u.cache_key
    \/ (h.id # Some(u.unicount) /\ ~ReuseUnicorn(a))

\* a faulty variant of UcAcquire: a handle that is reused keeps its id
UcAcquireKeepsId(h, u, a, new_id, new_obj) ==
    IF UcConstructs(h, u, a)
    THEN [Uniwrapper(new_obj, a, u.cache_key) EXCEPT !.id = Some(new_id)]
    ELSE IF h.id # Some(u.unicount) THEN HandleReset(h)
    ELSE h

\* the property uc read by plugin u on a thread whose handle is h: the thread's
\* handle afterwards, stamped with new_id (the plugin is stamped with it too)
UcAcquire(h, u, a, new_id, new_obj) ==
    LET h1 == IF UcConstructs(h, u, a) THEN Uniwrapper(new_obj, a, u.cache_key)
              ELSE IF h.id # Some(u.unicount) THEN HandleReset(h)
              ELSE h
    IN  [h1 EXCEPT !.id = Some(new_id)]

\* the objects that stop being the handle of thread t when its handle becomes h
Dropped(t, h) ==
    IF tls[t].obj # 0 /\ tls[t].obj # h.obj THEN dropped \cup {tls[t].obj} ELSE dropped

\* a faulty variant of DeleteUc: the handle is kept
DeleteUcKeeps(h) == h

\* delete_uc: _unicorn_tls.uc = None
DeleteUc(h) == NoHandle

(***************************************************************************)
(* Register marshaller, ingress: set_regs, write_msr                       *)
(***************************************************************************)
\* the MSRs of the FS and GS bases (0xC0000100 and 0xC0000101, less 0xC0000000)
MSR_FS_BASE == 256
MSR_GS_BASE == 257

\* write_msr(val, msr): RCX, RAX and RDX are loaded and wrmsr is run at BASE,
\* which leaves the program counter after it (BASE is scaled to 0)
WriteMsr(emu, val, msr) ==
    [emu EXCEPT !.rcx = msr,
                !.rax = val % HalfWord,
                !.rdx = val \div HalfWord,
                !.rip = 2,
                ![IF msr = MSR_FS_BASE THEN "fs_base" ELSE "gs_base"] =
                    (val \div HalfWord) * HalfWord + (val % HalfWord)]

\* the value of register r of the state; the instruction pointer is concrete
RegValue(sregs, ipv, r) == IF r = "rip" THEN ConcVal(ipv) ELSE sregs[r]

\* v = _process_value(value, 'reg'); raise if None; uc.reg_write(c, eval(v)).
\* st: the plugin, the constraint log, the emulator's registers, whether
\* SimValueError has been raised
SetReg(st, opts, ipv, v, c) ==
    LET r == ProcessValue(st.plug, opts, ipv, v, "reg") IN
    IF st.raised THEN st
    ELSE IF r = "refuse" THEN [st EXCEPT !.raised = TRUE]
    ELSE [st EXCEPT
             !.plug = IF r = "concretized" THEN ConcretizePlug(st.plug, v) ELSE st.plug,
             !.added = IF r = "concretized" /\ ConcretizeAdds(st.plug, v)
                       THEN LogConstraint(st.added, v.hash) ELSE st.added,
             !.emu = [st.emu EXCEPT ![c] = v.val]]

\* lines 1095-1102: the loop over uc_regs, from its i-th register on
RECURSIVE SetRegsLoop(_, _, _, _, _)
SetRegsLoop(i, st, opts, ipv, sregs) ==
    IF i > Len(UcRegOrder) THEN st
    ELSE LET r == UcRegOrder[i] IN
         SetRegsLoop(i + 1,
                     IF r \in reg_blacklist THEN st
                     ELSE SetReg(st, opts, ipv, RegValue(sregs, ipv, r), r),
                     opts, ipv, sregs)

\* setup_gdt: the GDT is mapped in the emulator
SetupGdt(st) == IF st.raised THEN st ELSE [st EXCEPT !.gdt = TRUE]

\* lines 1074-1092: on x86_64 the FS and GS bases are written through MSRs and
\* the flags are written, on i386 the flags are written and a GDT is set up,
\* before the loop
SetRegsPrelude(st, a, opts, ipv, sregs) ==
    IF a = "AMD64"
    THEN SetReg([st EXCEPT !.emu = WriteMsr(WriteMsr(@, sregs.fs.val, MSR_FS_BASE),
                                            sregs.gs.val, MSR_GS_BASE)],
                opts, ipv, sregs.eflags, "eflags")
    ELSE IF a = "X86"
    THEN SetupGdt(SetReg(st, opts, ipv, sregs.eflags, "eflags"))
    ELSE st

\* set_regs starts: nothing is raised, no GDT is mapped
SetRegsStart(u, log, emu) ==
    [plug |-> u, added |-> log, emu |-> emu, raised |-> FALSE, gdt |-> FALSE]

\* a faulty variant of SetRegs: the MSRs are written after the loop over uc_regs
SetRegsMsrLast(u, log, emu, a, opts, ipv, sregs) ==
    LET st == SetRegsLoop(1, SetRegsStart(u, log, emu), opts, ipv, sregs)
    IN  IF st.raised THEN st ELSE SetRegsPrelude(st, a, opts, ipv, sregs)

\* set_regs, without the x87 registers
SetRegs(u, log, emu, a, opts, ipv, sregs) ==
    SetRegsLoop(1, SetRegsPrelude(SetRegsStart(u, log, emu), a, opts, ipv, sregs),
                opts, ipv, sregs)

(***************************************************************************)
(* Register marshaller, egress: get_regs                                   *)
(***************************************************************************)
\* lines 1233-1247 and 1304-1307: every register of uc_regs that is not
\* blacklisted is read from the emulator, the flags are on x86, and then the
\* registers the native side reported as symbolic get back what they held
GetRegs(sregs, emu, a, opts, reported) ==
    LET read == [r \in StateRegNames |->
                    IF r \in {"rax", "rcx", "rdx"} THEN ConcVal(emu[r])
                    ELSE IF r = "eflags" /\ a \in {"X86", "AMD64"} THEN ConcVal(emu[r])
                    ELSE sregs[r]]
    IN  [r \in StateRegNames |->
            IF "UNICORN_SYM_REGS_SUPPORT" \in opts /\ r \in reported
            THEN sregs[r] ELSE read[r]]

(***************************************************************************)
(* Register marshaller, egress: the bytes of the register file             *)
(***************************************************************************)
\* arch.bytes: the bytes of a register word (8 on x86_64)
WordBytes == 2

\* the registers of the register file in the order of their offsets, each
\* of one word: two that egress reads from the emulator and a blacklisted one
FileRegs == <<"rax", "rcx", "fs">>
FileOffsets == 0..(Len(FileRegs) * WordBytes - 1)

\* the register that holds the byte at offset o
RegAt(o) == FileRegs[(o \div WordBytes) + 1]

\* state.registers.load(offset, size): the bytes from offset on
LoadBytes(file, offset, size) == [k \in 1..size |-> file[offset + k - 1]]

\* state.registers.store(offset, data)
StoreRegBytes(file, offset, data) ==
    [o \in DOMAIN file |-> IF offset <= o /\ o < offset + Len(data)
                           THEN data[o - offset + 1] ELSE file[o]]

\* sorted(symbolic_list[:num_regs])
RECURSIVE SortedList(_)
SortedList(S) == IF S = {} THEN << >> ELSE <<SetMin(S)>> \o SortedList(S \ {SetMin(S)})

\* a faulty variant of SavedGroup: the group is saved without its last byte
SavedGroupShort(file, cur_group, last_one) ==
    [offset |-> cur_group, data |-> LoadBytes(file, cur_group, last_one - cur_group)]

\* lines 1223-1225: (cur_group, self.state.registers.load(cur_group, last-cur_group+1))
SavedGroup(file, cur_group, last_one) ==
    [offset |-> cur_group, data |-> LoadBytes(file, cur_group, last_one - cur_group + 1)]

\* lines 1219-1227: the loop over the sorted offsets, from the k-th on; a group
\* ends where the next offset does not follow the last or is of another word
RECURSIVE SaveGroups(_, _, _, _)
SaveGroups(k, offsets, st, file) ==
    IF k > Len(offsets) THEN st
    ELSE LET i == offsets[k]
             st1 == IF IsNone(st.cur_group) THEN [st EXCEPT !.cur_group = Some(i)]
                    ELSE IF \/ i # Get(st.last) + 1
                            \/ Get(st.cur_group) \div WordBytes # i \div WordBytes
                    THEN [st EXCEPT !.saved = Append(@, SavedGroup(file, Get(st.cur_group),
                                                                    Get(st.last))),
                                    !.cur_group = Some(i)]
                    ELSE st
         IN  SaveGroups(k + 1, offsets, [st1 EXCEPT !.last = Some(i)], file)

\* lines 1228-1231: the group that is open when the loop ends is saved too
CloseGroups(st, file) ==
    IF IsNone(st.cur_group) THEN st.saved
    ELSE Append(st.saved, SavedGroup(file, Get(st.cur_group), Get(st.last)))

\* lines 1216-1231: saved_registers
SavedRegisters(file, reported) ==
    CloseGroups(SaveGroups(1, SortedList(reported),
                           [cur_group |-> NoneVal, last |-> NoneVal, saved |-> << >>], file),
                file)

\* lines 1233-1239: every register of uc_regs that is not blacklisted is set
\* to what the emulator holds for it
SyncRegisters(file, emu) ==
    [o \in DOMAIN file |-> IF RegAt(o) \in reg_blacklist THEN file[o] ELSE emu[o]]

\* lines 1304-1307: the saved groups are stored back, from the k-th on
RECURSIVE RestoreRegisters(_, _, _)
RestoreRegisters(k, saved, file) ==
    IF k > Len(saved) THEN file
    ELSE RestoreRegisters(k + 1, saved, StoreRegBytes(file, saved[k].offset, saved[k].data))

\* get_regs on the bytes of the register file
GetRegsFile(file, emu, opts, reported) ==
    IF "UNICORN_SYM_REGS_SUPPORT" \in opts
    THEN RestoreRegisters(1, SavedRegisters(file, reported), SyncRegisters(file, emu))
    ELSE SyncRegisters(file, emu)

\* p.get_regs() with the register file file, while the emulator holds emu
\* and the native side reports the offsets reported
GetRegsCall(p, file, emu, reported) ==
    /\ last' = [NoOp(plug) EXCEPT !.op = "get_regs", !.self = p,
                                  !.file0 = file, !.emu = emu, !.reported = reported,
                                  !.file = GetRegsFile(file, emu, options[p], reported)]
    /\ UNCHANGED <<plug, options, ip, added, unicounter, nrep, merged, runVars, envVars>>

(***************************************************************************)
(* Register marshaller: the x87 registers                                  *)
(***************************************************************************)
RECURSIVE Pow2(_)
Pow2(n) == IF n = 0 THEN 1 ELSE 2 * Pow2(n - 1)

\* Python's x & y and x | y on integers that are not negative
RECURSIVE BitAnd(_, _)
BitAnd(x, y) ==
    IF x = 0 \/ y = 0 THEN 0
    ELSE (x % 2) * (y % 2) + 2 * BitAnd(x \div 2, y \div 2)

RECURSIVE BitOr(_, _)
BitOr(x, y) ==
    IF x = 0 THEN y
    ELSE IF y = 0 THEN x
    ELSE (IF x % 2 = 1 \/ y % 2 = 1 THEN 1 ELSE 0) + 2 * BitOr(x \div 2, y \div 2)

\* 0x8000000000000000: the sign of a double and the integer bit of a mantissa
TopBit == Pow2(FracBits + 11)
\* 0xFFFFFFFFFFFFFFFF
AllOnes == 2 * TopBit - 1
\* 0x000FFFFFFFFFFFFF
FracMask == Pow2(FracBits) - 1

\* a double of the given sign, biased exponent and fraction
Double(sign, exponent, fraction) ==
    sign * TopBit + exponent * Pow2(FracBits) + fraction

\* lines 1130-1147: the 64-bit double val as the pair (exponent, mantissa) of
\* the extended format
DoubleToExtended(val) ==
    LET sign == BitAnd(val, TopBit) # 0
        exponent == BitAnd(val, 2047 * Pow2(FracBits)) \div Pow2(FracBits)
        mantissa == BitAnd(val, FracMask)
        e == IF exponent \notin {0, 2047} THEN exponent - 1023 + 16383
             ELSE IF exponent = 0 THEN exponent
             ELSE 32767
        m == IF exponent \notin {0, 2047} THEN BitOr(mantissa * Pow2(11), TopBit)
             ELSE IF exponent = 0 THEN 0
             ELSE IF mantissa # 0 THEN TopBit
             ELSE AllOnes
    IN  <<IF sign THEN BitOr(e, 32768) ELSE e, m>>

\* lines 1273-1292: the fields of the extended format as a 64-bit double
ExtendedToDouble(mantissa0, exponent0) ==
    LET sign == BitAnd(exponent0, 32768) # 0
        exponent == BitAnd(exponent0, 32767)
        rebiased == exponent - 16383 + 1023
        e == IF exponent \notin {0, 32767}
             THEN (IF rebiased <= 0 THEN 0 ELSE IF rebiased >= 2047 THEN 2047 ELSE rebiased)
             ELSE IF exponent = 0 THEN exponent
             ELSE 2047
        m == IF exponent \notin {0, 32767}
             THEN (IF rebiased <= 0 \/ rebiased >= 2047 THEN 0 ELSE mantissa0)
             ELSE IF exponent = 0 THEN 0
             ELSE IF mantissa0 # 0 THEN 65535
             ELSE mantissa0
    IN  BitOr(BitOr(IF sign THEN TopBit ELSE 0, e * Pow2(FracBits)),
              BitAnd(m \div Pow2(11), FracMask))

\* uc.reg_write(UC_X86_REG_FP0 + i, value): the emulator takes the first
\* component of the pair as the 64-bit mantissa and the second as the 16-bit
\* exponent of its register
WriteFp(fp, i, value) ==
    [fp EXCEPT !.st[i] = [mantissa |-> value[1] % (2 * TopBit),
                          exponent |-> value[2] % 65536]]

\* uc.reg_read(UC_X86_REG_FP0 + i): the pair (mantissa, exponent)
ReadFp(fp, i) == <<fp.st[i].mantissa, fp.st[i].exponent>>

\* lines 1119-1153: the loop over the stack slots, from slot i on; a slot whose
\* tag is 0 is empty and gets the tag bits 3
RECURSIVE SetFpuLoop(_, _, _, _, _)
SetFpuLoop(i, st, opts, ipv, f) ==
    IF i >= FpSlots \/ st.raised THEN st
    ELSE IF f.tags[i] = 0
    THEN SetFpuLoop(i + 1, [st EXCEPT !.tag_word = BitOr(4 * @, 3)], opts, ipv, f)
    ELSE LET v == f.regs[i]
             r == ProcessValue(st.plug, opts, ipv, v, "reg")
         IN  IF r = "refuse" THEN [st EXCEPT !.raised = TRUE]
             ELSE SetFpuLoop(i + 1,
                      [st EXCEPT
                          !.tag_word = 4 * @,
                          !.plug = IF r = "concretized" THEN ConcretizePlug(st.plug, v)
                                   ELSE st.plug,
                          !.added = IF r = "concretized" /\ ConcretizeAdds(st.plug, v)
                                    THEN LogConstraint(st.added, v.hash) ELSE st.added,
                          !.fp = WriteFp(st.fp, i, DoubleToExtended(v.val))],
                      opts, ipv, f)

\* lines 1104-1155 of set_regs: the control and status words, the stack slots
\* and the tag word; st is what lines 1072-1102 left, fp the x87 registers of
\* the emulator, f those of the state
SetFpu(st, fp, a, opts, ipv, f) ==
    LET st0 == [plug |-> st.plug, added |-> st.added, emu |-> st.emu,
                raised |-> st.raised, gdt |-> st.gdt, fp |-> fp, tag_word |-> 0]
        control == BitOr(895, (f.fpround % 4) * 1024)
        status == BitOr((f.ftop % 8) * 2048, f.fc3210)
        st1 == SetFpuLoop(0, [st0 EXCEPT !.fp.fpcw = control, !.fp.fpsw = status],
                          opts, ipv, f)
    IN  IF st.raised \/ a \notin {"X86", "AMD64"} THEN st0
        ELSE IF st1.raised THEN st1
        ELSE [st1 EXCEPT !.fp.fptag = st1.tag_word]

\* the tag bits that the i-th round of the loop of get_regs sees
TagBits(fp, i) == (fp.fptag \div Pow2(2 * i)) % 4

\* lines 1249-1302 of get_regs: the i-th round reads the i-th register of the
\* emulator into slot i of the state if the tag bits it sees are not 3, and
\* stores the tag of slot FpSlots - 1 - i
GetFpu(f, fp, a) ==
    IF a \notin {"X86", "AMD64"} THEN f
    ELSE [fpround |-> BitAnd(fp.fpcw, 3072) \div 1024,
          fc3210 |-> BitAnd(fp.fpsw, 18176),
          ftop |-> BitAnd(fp.fpsw, 14336) \div 2048,
          tags |-> [j \in FpSlotIds |->
                       IF TagBits(fp, FpSlots - 1 - j) = 3 THEN 0 ELSE 1],
          regs |-> [i \in FpSlotIds |->
                       IF TagBits(fp, i) = 3 THEN f.regs[i]
                       ELSE ConcVal(ExtendedToDouble(ReadFp(fp, i)[1], ReadFp(fp, i)[2]))]]

(***************************************************************************)
(* Run controller: setup, start                                            *)
(***************************************************************************)
\* a faulty variant of ThreadLocal: _unicorn_tls is an object all threads share
ProcessGlobal(t, h) == [x \in Threads |-> h]

\* _unicorn_tls is a threading.local(): an assignment to _unicorn_tls.uc on
\* thread t changes the attribute of thread t
ThreadLocal(t, h) == [tls EXCEPT ![t] = h]

\* line 970: 0x1000 <= address < 0x2000
InGdt(address) == PageSize <= address /\ address < 2 * PageSize

\* the native state after alloc; activated: the pages activate was called
\* for, installs: the ranges handed over with their content and taint,
\* stop_req: the stop the page bridge asked for
NativeAlloc ==
    [stop_reason |-> STOP_NOSTART, steps |-> 0, muts |-> << >>, transmits |-> << >>,
     emu |-> [a \in MemAddrs |-> 0], symregs |-> {}, blocker |-> ConcVal(0),
     activated |-> {1}, installs |-> {}, faults |-> 0, stop_req |-> NoneVal]

\* the plugin's position: idle, setup, running (inside the native start),
\* stopped, finished, destroyed; the thread of the episode and the emulator
\* instance the native state was allocated on; new_id is the local variable of
\* the property uc while the thread is in it
Idle == [pc |-> "idle", thread |-> "t1", obj |-> 0, new_id |-> NoneVal]

\* the number of emulator instances constructed once h was acquired
Constructed(h) == IF h.obj = nextObj + 1 THEN nextObj + 1 ELSE nextObj

\* arch.uc_mode: the architectures the emulator knows have one
UcMode(a) == IF a \in ArchNames THEN Some(a) ELSE NoneVal

\* _setup_unicorn raises SimUnicornUnsupport
SetupUnicornRaises(a) == IsNone(UcMode(a))

\* the exception setup ends with: _setup_unicorn raises, set_regs raises, or
\* the attribute alloc of _UC_NATIVE is looked up while _UC_NATIVE is None
SetupError(a, st, loaded) ==
    IF SetupUnicornRaises(a) THEN "SimUnicornUnsupport"
    ELSE IF st.raised THEN "SimValueError"
    ELSE IF ~loaded THEN "AttributeError"
    ELSE "none"

\* setup_gdt, line 1160: uc.mem_map(gdt.addr, gdt.limit), the page of the GDT
GdtMapped(h, gdt) == IF gdt THEN MemMap(h, PageSize, PageSize) ELSE h

\* p.setup() on thread t. The reads of self.uc of one handler follow each other
\* on one thread, so that the first decides and the others only stamp: they
\* are one acquisition
Setup(p, t) ==
    LET u0 == plug[p]
        h1 == UcAcquire(tls[t], u0, arch[p], unicounter, nextObj + 1)
        st == SetFpu(SetRegs([u0 EXCEPT !.unicount = unicounter], added[p], h1.regs,
                             arch[p], options[p], ip[p], regs[p]),
                     h1.fp, arch[p], options[p], ip[p], fpu[p])
        h2 == GdtMapped([h1 EXCEPT !.regs = st.emu, !.fp = st.fp], st.gdt)
        error == SetupError(arch[p], st, uc_native)
    IN  /\ run[p].pc \in {"idle", "destroyed"}
        /\ \A q \in PlugIds : run[q].pc = "running" => run[q].thread # t
        /\ IF SetupUnicornRaises(arch[p])
           THEN UNCHANGED <<unicounter, nextObj, tls, dropped, plug, added, run, native>>
           ELSE /\ unicounter < MaxId
                /\ unicounter' = unicounter + 1
                /\ nextObj' = Constructed(h1)
                /\ tls' = ThreadLocal(t, h2)
                /\ dropped' = Dropped(t, h2)
                /\ plug' = StorePlug(p, IF error # "none" THEN st.plug
                                         ELSE [st.plug EXCEPT !.uc_state = Some(h2.obj)],
                                      shares)
                /\ added' = [added EXCEPT ![p] = st.added]
                /\ run' = [run EXCEPT ![p] =
                               IF error # "none" THEN [Idle EXCEPT !.thread = t]
                               ELSE [pc |-> "setup", thread |-> t, obj |-> h2.obj,
                                     new_id |-> NoneVal]]
                /\ native' = [native EXCEPT ![p] = IF error # "none" THEN @ ELSE NativeAlloc]
        /\ last' = [NoOp(plug) EXCEPT !.op = "setup", !.self = p, !.thread = t,
                                      !.raised = error # "none", !.error = error]
        /\ UNCHANGED <<options, ip, nrep, merged, arch, regs, smem, perms, stdout, envVars>>

\* the hooks that hook() adds for plugin p on architecture a, in its order:
\* the page bridge, the interrupt hook and, on x86_64, the hook of SYSCALL
HookKinds(a) ==
    IF a = "AMD64" THEN <<"mem_unmapped", "intr", "insn">>
    ELSE IF a \in {"X86", "MIPS32"} THEN <<"mem_unmapped", "intr">>
    ELSE <<"mem_unmapped">>

\* line 543: hook() raises SimUnicornUnsupport, after the page bridge was hooked
HookRaises(a) == a \notin {"AMD64", "X86", "MIPS32"}

\* lines 530-541: the calls of hook_add, from the k-th on
RECURSIVE HookAll(_, _, _, _)
HookAll(k, h, p, kinds) ==
    IF k > Len(kinds) THEN h
    ELSE HookAll(k + 1, HookAdd(h, [owner |-> p, kind |-> kinds[k]]), p, kinds)

\* the handle of the thread becomes h by a read of self.uc of p that drew
\* the id new_id
Acquired(p, t, h, new_id) ==
    /\ nextObj' = Constructed(h)
    /\ tls' = ThreadLocal(t, h)
    /\ dropped' = Dropped(t, h)
    /\ plug' = StorePlug(p, [plug[p] EXCEPT !.unicount = new_id], shares)

\* p.hook(), once in an episode, between setup and start
Hook(p) ==
    LET t == run[p].thread
    IN  /\ run[p].pc = "setup"
        /\ [owner |-> p, kind |-> "mem_unmapped"] \notin tls[t].hooks
        /\ unicounter < MaxId
        /\ unicounter' = unicounter + 1
        /\ Acquired(p, t, HookAll(1, UcAcquire(tls[t], plug[p], arch[p], unicounter,
                                               nextObj + 1),
                                  p, HookKinds(arch[p])),
                    unicounter)
        /\ last' = [NoOp(plug) EXCEPT !.op = "hook", !.self = p, !.thread = t,
                                      !.raised = HookRaises(arch[p])]
        /\ UNCHANGED <<options, ip, added, nrep, merged, arch, run, native, regs, smem,
                       perms, stdout, envVars>>

\* _check_registers(report=False), from the i-th register of uc_regs on: the
\* first register that is refused or stays symbolic ends it
RECURSIVE CheckRegisters(_, _, _, _, _, _)
CheckRegisters(i, st, a, opts, ipv, sregs) ==
    LET last_one == i = Len(UcRegOrder) + 1
        v == IF last_one THEN sregs.eflags ELSE RegValue(sregs, ipv, UcRegOrder[i])
        r == ProcessValue(st.plug, opts, ipv, v, "reg")
        st1 == [plug |-> IF r = "concretized" THEN ConcretizePlug(st.plug, v) ELSE st.plug,
                added |-> IF r = "concretized" /\ ConcretizeAdds(st.plug, v)
                          THEN LogConstraint(st.added, v.hash) ELSE st.added,
                ok |-> r \notin {"refuse", "symbolic"}]
    IN  IF i > Len(UcRegOrder) + 1 \/ (last_one /\ a = "MIPS32") THEN st
        ELSE IF ~st1.ok THEN st1
        ELSE CheckRegisters(i + 1, st1, a, opts, ipv, sregs)

\* lines 909-918: _symbolic_passthrough on every object in the register file, in
\* the order of their offsets; the registers left symbolic are handed to the
\* native side
RegFileOrder == <<"rax", "rcx", "rdx", "fs", "gs", "eflags">>

RECURSIVE SymbolicOffsets(_, _, _, _, _)
SymbolicOffsets(i, st, opts, ipv, sregs) ==
    IF i > Len(RegFileOrder) THEN st
    ELSE LET r == RegFileOrder[i]
             v == sregs[r]
             c == SymbolicPassthrough(st.plug, opts, ipv, v) = "concretize"
         IN  SymbolicOffsets(i + 1,
                 [plug |-> IF c THEN ConcretizePlug(st.plug, v) ELSE st.plug,
                  added |-> IF c /\ ConcretizeAdds(st.plug, v)
                            THEN LogConstraint(st.added, v.hash) ELSE st.added,
                  offsets |-> IF ~c /\ v.variables # {} THEN st.offsets \cup {r}
                              ELSE st.offsets],
                 opts, ipv, sregs)

\* lines 886-937 of start, up to the call of the native start; line 892 binds
\* a new list to _uncache_pages, which then is the list of no other plugin
StartCall(p) ==
    LET u0 == [plug[p] EXCEPT !.jumpkind = "Ijk_Boring",
                              !.countdown_nonunicorn_blocks = plug[p].cooldown_nonunicorn_blocks,
                              !.uncache_pages = << >>]
        track == /\ "UNICORN_SYM_REGS_SUPPORT" \in options[p]
                 /\ "UNICORN_AGGRESSIVE_CONCRETIZATION" \notin options[p]
        chk == CheckRegisters(1, [plug |-> u0, added |-> added[p], ok |-> TRUE],
                              arch[p], options[p], ip[p], regs[p])
        off == SymbolicOffsets(1, [plug |-> chk.plug, added |-> chk.added, offsets |-> {}],
                               options[p], ip[p], regs[p])
        fin == IF ~track THEN [plug |-> u0, added |-> added[p], offsets |-> {}]
               ELSE IF chk.ok THEN [plug |-> chk.plug, added |-> chk.added, offsets |-> {}]
               ELSE off
    IN  /\ run[p].pc = "setup"
        /\ \A q \in PlugIds : run[q].pc = "running" => run[q].thread # run[p].thread
        /\ plug' = StorePlug(p, [fin.plug EXCEPT !.time = "none"],
                              shares \ {"uncache_pages"})
        /\ shares' = shares \ {"uncache_pages"}
        /\ added' = [added EXCEPT ![p] = fin.added]
        /\ native' = [native EXCEPT ![p].symregs = fin.offsets]
        /\ run' = [run EXCEPT ![p].pc = "running"]
        /\ last' = [NoOp(plug) EXCEPT !.op = "start", !.self = p, !.thread = run[p].thread]
        /\ UNCHANGED <<options, ip, unicounter, nrep, merged, arch, tls, nextObj, dropped,
                       regs, smem, perms, stdout, uc_native, fpu, libs>>

\* the native start returns: how far it got and what it left behind. The
\* emulator it ran on is the one the native state was allocated on
StartReturn(p, out) ==
    LET t == run[p].thread
        h == tls[t]
    IN  /\ run[p].pc = "running"
        /\ out.steps = 0 => (out.muts = << >> /\ out.transmits = << >>)
        /\ ~IsNone(native[p].stop_req) => out.stop_reason = Get(native[p].stop_req)
        /\ native' = [native EXCEPT ![p] =
                          [@ EXCEPT !.stop_reason = out.stop_reason, !.steps = out.steps,
                                    !.muts = out.muts, !.transmits = out.transmits,
                                    !.emu = out.emu, !.blocker = out.blocker]]
        /\ tls' = IF out.steps > 0 /\ h.obj = run[p].obj
                  THEN ThreadLocal(t, [h EXCEPT !.regs.rip = out.rip, !.regs.rax = out.rax])
                  ELSE tls
        /\ plug' = [plug EXCEPT ![p].time = IF out.slow THEN "slow" ELSE "fast"]
        /\ run' = [run EXCEPT ![p].pc = "stopped"]
        /\ last' = [NoOp(plug) EXCEPT !.op = "stop", !.self = p, !.thread = t]
        /\ UNCHANGED <<options, ip, added, unicounter, nrep, merged, arch, nextObj, dropped,
                       regs, smem, perms, stdout, envVars>>

(***************************************************************************)
(* Run controller: finish                                                  *)
(***************************************************************************)
\* state.memory.store(address, mem_read(address, length))
StoreBytes(mem, emu, address, length) ==
    [a \in MemAddrs |-> IF address <= a /\ a < address + length THEN ConcVal(emu[a])
                        ELSE mem[a]]

\* lines 969-975: one entry of the mutation list; st is the memory and the
\* calls of state.memory.store made so far, in their order
ReplayEntry(st, emu, e) ==
    IF InGdt(e.address) THEN st
    ELSE [mem |-> StoreBytes(st.mem, emu, e.address, e.length),
          stores |-> Append(st.stores, e)]

\* a faulty variant of Replay: the list is walked from its end
RECURSIVE ReplayBackwards(_, _, _, _)
ReplayBackwards(i, st, emu, muts) ==
    IF i > Len(muts) THEN st
    ELSE ReplayEntry(ReplayBackwards(i + 1, st, emu, muts), emu, muts[i])

\* lines 965-977: the walk of the list, from its i-th entry on
RECURSIVE Replay(_, _, _, _)
Replay(i, st, emu, muts) ==
    IF i > Len(muts) THEN st
    ELSE Replay(i + 1, ReplayEntry(st, emu, muts[i]), emu, muts)

\* _UC_NATIVE.process_transmit(state, i): the i-th record captured, or null
ProcessTransmit(n, i) ==
    IF i < Len(n.transmits) THEN Some(n.transmits[i + 1]) ELSE NoneVal

\* a faulty variant of StringAt: the whole buffer
StringAtAll(data, count) == data

\* ctypes.string_at(data, count): the first count bytes at data
StringAt(data, count) == SubSeq(data, 1, count)

\* lines 987-997: the walk of the transmit records from index i on; out is
\* what stdout.write_data has been called with so far
RECURSIVE WriteTransmits(_, _, _)
WriteTransmits(i, out, n) ==
    LET record == ProcessTransmit(n, i) IN
    IF IsNone(record) THEN out
    ELSE WriteTransmits(i + 1,
                        Append(out, StringAt(Get(record).data, Get(record).count)), n)

\* a faulty variant of FinishRaises: the step count is not looked at
FinishRaisesOnNostart(stop_reason, steps) == stop_reason = STOP_NOSTART

\* line 955: SimUnicornError is raised
FinishRaises(stop_reason, steps) == stop_reason = STOP_NOSTART /\ steps > 0

\* a faulty variant of ArmCountdowns: a stop point is taken as a normal stop
ArmCountdownsNoStopPoint(u) ==
    LET sr == Get(u.stop_reason) IN
    IF sr \in {STOP_NORMAL, STOP_SYSCALL, STOP_STOPPOINT}
    THEN [u EXCEPT !.countdown_nonunicorn_blocks = 0]
    ELSE IF sr = STOP_SYMBOLIC_REG
    THEN [u EXCEPT !.countdown_symbolic_registers = u.cooldown_symbolic_registers]
    ELSE IF sr = STOP_SYMBOLIC_MEM
    THEN [u EXCEPT !.countdown_symbolic_memory = u.cooldown_symbolic_memory]
    ELSE [u EXCEPT !.countdown_nonunicorn_blocks = u.cooldown_nonunicorn_blocks]

\* a faulty variant of ArmCountdowns: a stop over a symbolic register or
\* symbolic memory sets the nonunicorn-blocks countdown to 0 as well
ArmCountdownsSymbolicReset(u) ==
    LET sr == Get(u.stop_reason) IN
    IF sr \in {STOP_NORMAL, STOP_SYSCALL} THEN [u EXCEPT !.countdown_nonunicorn_blocks = 0]
    ELSE IF sr = STOP_STOPPOINT
    THEN [u EXCEPT !.countdown_nonunicorn_blocks = 0,
                   !.countdown_stop_point = u.cooldown_stop_point]
    ELSE IF sr = STOP_SYMBOLIC_REG
    THEN [u EXCEPT !.countdown_nonunicorn_blocks = 0,
                   !.countdown_symbolic_registers = u.cooldown_symbolic_registers]
    ELSE IF sr = STOP_SYMBOLIC_MEM
    THEN [u EXCEPT !.countdown_nonunicorn_blocks = 0,
                   !.countdown_symbolic_memory = u.cooldown_symbolic_memory]
    ELSE [u EXCEPT !.countdown_nonunicorn_blocks = u.cooldown_nonunicorn_blocks]

\* lines 999-1013: the countdowns armed by the stop reason
ArmCountdowns(u) ==
    LET sr == Get(u.stop_reason) IN
    IF sr \in {STOP_NORMAL, STOP_SYSCALL} THEN [u EXCEPT !.countdown_nonunicorn_blocks = 0]
    ELSE IF sr = STOP_STOPPOINT
    THEN [u EXCEPT !.countdown_nonunicorn_blocks = 0,
                   !.countdown_stop_point = u.cooldown_stop_point]
    ELSE IF sr = STOP_SYMBOLIC_REG
    THEN [u EXCEPT !.countdown_symbolic_registers = u.cooldown_symbolic_registers]
    ELSE IF sr = STOP_SYMBOLIC_MEM
    THEN [u EXCEPT !.countdown_symbolic_memory = u.cooldown_symbolic_memory]
    ELSE [u EXCEPT !.countdown_nonunicorn_blocks = u.cooldown_nonunicorn_blocks]

\* lines 1015-1023: time is "slow" when is_testing is off, the time is not 0
\* and fewer than 10 blocks a second were stepped
LowThroughput(u) ==
    IF u.time = "slow"
    THEN [u EXCEPT !.countdown_nonunicorn_blocks = u.cooldown_nonunicorn_blocks]
    ELSE u

\* the reports counted per variable and origin
CountReport(n, d, from_where) ==
    [v \in VarNames |-> IF v \in d.variables THEN [n[v] EXCEPT ![from_where] = @ + 1]
                        ELSE n[v]]

\* p.finish(); when NOSTART comes with steps, it raises after the registers
\* were read and before the memory is replayed
Finish(p) ==
    LET t == run[p].thread
        n == native[p]
        h == UcAcquire(tls[t], plug[p], arch[p], unicounter, nextObj + 1)
        newregs == GetRegs(regs[p], h.regs, arch[p], options[p], n.symregs)
        newip == h.regs.rip
        where == IF n.stop_reason = STOP_SYMBOLIC_REG THEN "reg" ELSE "mem"
        reports == n.stop_reason \in {STOP_SYMBOLIC_REG, STOP_SYMBOLIC_MEM}
        u1 == [plug[p] EXCEPT !.unicount = unicounter, !.steps = n.steps,
                              !.stop_reason = Some(n.stop_reason)]
        u2 == IF reports
              THEN ReportSymbolicBlockerPlug(u1, options[p], newip, n.blocker, where)
              ELSE u1
        raised == FinishRaises(n.stop_reason, n.steps)
        replayed == Replay(1, [mem |-> smem[p], stores |-> << >>], n.emu, n.muts)
    IN  /\ run[p].pc = "stopped"
        /\ unicounter < MaxId
        /\ reports => TotalReports(p) + Cardinality(n.blocker.variables) <= MaxReports
        /\ unicounter' = unicounter + 1
        /\ nextObj' = Constructed(h)
        /\ tls' = ThreadLocal(t, h)
        /\ dropped' = Dropped(t, h)
        /\ regs' = [regs EXCEPT ![p] = newregs]
        /\ fpu' = [fpu EXCEPT ![p] = GetFpu(@, h.fp, arch[p])]
        /\ ip' = [ip EXCEPT ![p] = newip]
        /\ nrep' = IF reports /\ "UNICORN_THRESHOLD_CONCRETIZATION" \in options[p]
                   THEN [nrep EXCEPT ![p] = CountReport(@, n.blocker, where)]
                   ELSE nrep
        /\ plug' = StorePlug(p, IF raised THEN u2 ELSE LowThroughput(ArmCountdowns(u2)),
                              shares)
        /\ smem' = IF raised THEN smem
                   ELSE [smem EXCEPT ![p] = replayed.mem]
        /\ stdout' = IF raised THEN stdout
                     ELSE [stdout EXCEPT ![p] = WriteTransmits(0, @, n)]
        /\ run' = [run EXCEPT ![p].pc = "finished"]
        /\ last' = [NoOp(plug) EXCEPT !.op = "finish", !.self = p, !.thread = t,
                                      !.raised = raised,
                                      !.stores = IF raised THEN << >> ELSE replayed.stores,
                                      !.error = IF raised THEN "SimUnicornError" ELSE "none"]
        /\ UNCHANGED <<options, added, merged, arch, native, perms, uc_native, shares, libs>>

(***************************************************************************)
(* Run controller: destroy; pickling: __setstate__                         *)
(***************************************************************************)
\* line 1065: the stop reasons after which the handle is kept
Retained(stop_reason) ==
    stop_reason \in {Some(STOP_NORMAL), Some(STOP_STOPPOINT), Some(STOP_SYMBOLIC_MEM),
                     Some(STOP_SYMBOLIC_REG)}

\* p.destroy(): self.uc is read before delete_uc and once more after it
Destroy(p) ==
    LET t == run[p].thread
        u == plug[p]
        h1 == UcAcquire(tls[t], u, arch[p], unicounter, nextObj + 1)
        made == Constructed(h1)
        h2 == HookReset(h1)
        h3 == IF Retained(u.stop_reason) THEN h2 ELSE DeleteUc(h2)
        u1 == [u EXCEPT !.unicount = unicounter, !.uc_state = NoneVal]
        h4 == HandleReset(UcAcquire(h3, u1, arch[p], unicounter + 1, made + 1))
    IN  /\ run[p].pc \in {"setup", "stopped", "finished"}
        /\ unicounter + 1 < MaxId
        /\ unicounter' = unicounter + 2
        /\ nextObj' = IF h4.obj = made + 1 THEN made + 1 ELSE made
        /\ tls' = ThreadLocal(t, h4)
        /\ dropped' = dropped \cup ({tls[t].obj, h1.obj} \ {0, h4.obj})
        /\ plug' = [plug EXCEPT ![p] = [u1 EXCEPT !.unicount = unicounter + 1]]
        /\ run' = [run EXCEPT ![p].pc = "destroyed"]
        /\ last' = [NoOp(plug) EXCEPT !.op = "destroy", !.self = p, !.thread = t]
        /\ UNCHANGED <<options, ip, added, nrep, merged, arch, native, regs, smem, perms, stdout, envVars>>

\* a pickled plugin is loaded on thread t in the place of p: __setstate__
SetState(p, t) ==
    /\ run[p].pc \in {"idle", "destroyed"}
    /\ \A q \in PlugIds : run[q].pc = "running" => run[q].thread # t
    /\ \A q \in PlugIds : IsNone(run[q].new_id) \/ (q # p /\ run[q].thread # t)
    /\ unicounter < MaxId
    /\ unicounter' = unicounter + 1
    /\ plug' = [plug EXCEPT ![p] = [@ EXCEPT !.unicount = unicounter, !.uc_state = NoneVal,
                                             !.cache_key = p]]
    /\ tls' = ThreadLocal(t, NoHandle)
    /\ dropped' = Dropped(t, NoHandle)
    /\ last' = [NoOp(plug) EXCEPT !.op = "setstate", !.self = p, !.thread = t]
    /\ UNCHANGED <<options, ip, added, nrep, merged, arch, nextObj, run, native, regs,
                   smem, perms, stdout, envVars>>

(***************************************************************************)
(* Unicorn.copy, uncache_page, the syscall hook map                        *)
(***************************************************************************)
\* lines 355-379: the plugin that copy constructs from u. cooldown_stop_point
\* is not among the constructor's arguments, so that it gets the default
CopyFields(u, new_id) ==
    [UnicornInit([nonunicorn_blocks |-> u.cooldown_nonunicorn_blocks,
                  symbolic_registers |-> u.cooldown_symbolic_registers,
                  symbolic_memory |-> u.cooldown_symbolic_memory,
                  stop_point |-> DefaultCooldowns.stop_point],
                 [memory |-> u.concretization_threshold_memory,
                  registers |-> u.concretization_threshold_registers,
                  instruction |-> u.concretization_threshold_instruction],
                 u.never_concretize, u.cache_key, new_id)
        EXCEPT !.syscall_hooks = u.syscall_hooks,
               !.symbolic_var_counts = u.symbolic_var_counts,
               !.symbolic_inst_counts = u.symbolic_inst_counts,
               !.concretized_asts = u.concretized_asts,
               !.always_concretize = u.always_concretize,
               !.concretize_at = u.concretize_at,
               !.max_steps = u.max_steps,
               !.countdown_nonunicorn_blocks = u.countdown_nonunicorn_blocks,
               !.countdown_symbolic_registers = u.countdown_symbolic_registers,
               !.countdown_symbolic_memory = u.countdown_symbolic_memory,
               !.countdown_stop_point = u.countdown_stop_point,
               !.transmit_addr = u.transmit_addr,
               !.uncache_pages = u.uncache_pages]

\* a faulty variant of CopyPlug: always_concretize is handed to the
\* constructor as it is, without set()
CopyPlugSharingSet(u, new_id) ==
    [plug |-> CopyFields(u, new_id), shares |-> {"always_concretize"}]

\* copy: every container is wrapped in dict(), set() or list(), so that the
\* new plugin shares none with u
CopyPlug(u, new_id) == [plug |-> CopyFields(u, new_id), shares |-> {}]

\* c = p.copy() as the state of p forks: the fork takes the place of q, its
\* state starts as the state of p
Copy(p, q) ==
    LET c == CopyPlug(plug[p], unicounter)
    IN  /\ p # q
        /\ run[q].pc \in {"idle", "destroyed"}
        /\ IsNone(run[p].new_id) /\ IsNone(run[q].new_id)
        /\ unicounter < MaxId
        /\ unicounter' = unicounter + 1
        /\ plug' = [plug EXCEPT ![q] = c.plug]
        /\ shares' = c.shares
        /\ options' = [options EXCEPT ![q] = options[p]]
        /\ ip' = [ip EXCEPT ![q] = ip[p]]
        /\ added' = [added EXCEPT ![q] = added[p]]
        /\ nrep' = [nrep EXCEPT ![q] = nrep[p]]
        /\ arch' = [arch EXCEPT ![q] = arch[p]]
        /\ regs' = [regs EXCEPT ![q] = regs[p]]
        /\ smem' = [smem EXCEPT ![q] = smem[p]]
        /\ perms' = [perms EXCEPT ![q] = perms[p]]
        /\ stdout' = [stdout EXCEPT ![q] = stdout[p]]
        /\ fpu' = [fpu EXCEPT ![q] = fpu[p]]
        /\ run' = [run EXCEPT ![q] = Idle]
        /\ merged' = merged \ {q}
        /\ last' = [NoOp(plug) EXCEPT !.op = "copy", !.self = p, !.others = {q}]
        /\ UNCHANGED <<tls, nextObj, dropped, native, uc_native, libs>>

\* line 474, new_id = next(_unicounter): the thread t enters the property uc of
\* p and draws the id; next() of itertools.count is one step of the interpreter
UcDraw(p, t) ==
    /\ run[p].pc \in {"idle", "destroyed"}
    /\ IsNone(run[p].new_id)
    /\ \A q \in PlugIds : run[q].pc = "running" => run[q].thread # t
    /\ \A q \in PlugIds : ~IsNone(run[q].new_id) => run[q].thread # t
    /\ unicounter < MaxId
    /\ unicounter' = unicounter + 1
    /\ run' = [run EXCEPT ![p].new_id = Some(unicounter), ![p].thread = t]
    /\ last' = [NoOp(plug) EXCEPT !.op = "draw", !.self = p, !.thread = t]
    /\ UNCHANGED <<plug, options, ip, added, nrep, merged, arch, tls, nextObj, dropped,
                   native, regs, smem, perms, stdout, envVars>>

\* lines 476-495: the rest of the property uc, on the thread's own handle and
\* on p alone
UcStamp(p) ==
    LET t == run[p].thread
        new_id == Get(run[p].new_id)
        h == UcAcquire(tls[t], plug[p], arch[p], new_id, nextObj + 1)
    IN  /\ ~IsNone(run[p].new_id)
        /\ nextObj' = Constructed(h)
        /\ tls' = ThreadLocal(t, h)
        /\ dropped' = Dropped(t, h)
        /\ plug' = StorePlug(p, [plug[p] EXCEPT !.unicount = new_id], shares)
        /\ run' = [run EXCEPT ![p].new_id = NoneVal]
        /\ last' = [NoOp(plug) EXCEPT !.op = "uc", !.self = p, !.thread = t]
        /\ UNCHANGED <<options, ip, added, unicounter, nrep, merged, arch, native, regs,
                       smem, perms, stdout, envVars>>

\* the emulator maps a page in the handle of thread t (mem_map)
UcMemMap(t, g) ==
    /\ tls[t].obj # 0
    /\ g \notin tls[t].mapped
    /\ \A q \in PlugIds : ~IsNone(run[q].new_id) => run[q].thread # t
    /\ tls' = ThreadLocal(t, MemMap(tls[t], g * PageSize, PageSize))
    /\ last' = [NoOp(plug) EXCEPT !.op = "mem_map", !.thread = t]
    /\ UNCHANGED <<plug, options, ip, added, unicounter, nrep, merged, arch, nextObj,
                   dropped, run, native, regs, smem, perms, stdout, envVars>>

\* lines 463-466, set_state: the plugin is put on its state; on MIPS32 it
\* draws a new id
PluginSetState(p) ==
    /\ run[p].pc \in {"idle", "destroyed"}
    /\ IsNone(run[p].new_id)
    /\ arch[p] = "MIPS32"
    /\ unicounter < MaxId
    /\ unicounter' = unicounter + 1
    /\ plug' = StorePlug(p, [plug[p] EXCEPT !.unicount = unicounter], shares)
    /\ last' = [NoOp(plug) EXCEPT !.op = "set_state", !.self = p]
    /\ UNCHANGED <<options, ip, added, nrep, merged, runVars, envVars>>

\* line 869: p.uncache_page(addr) appends the page of addr to the list
UncachePage(p, addr) ==
    /\ Len(plug[p].uncache_pages) < MaxUncache
    /\ plug' = StorePlug(p, [plug[p] EXCEPT !.uncache_pages =
                                                Append(@, addr - (addr % PageSize))],
                          shares)
    /\ last' = [NoOp(plug) EXCEPT !.op = "uncache_page", !.self = p]
    /\ UNCHANGED <<options, ip, added, unicounter, nrep, merged, runVars, envVars>>

\* p.syscall_hooks[sysno] = hook: the map of line 315, which line 596 looks
\* the system call up in
HookSyscall(p, sysno, hook) ==
    /\ plug[p].syscall_hooks[sysno] # Some(hook)
    /\ plug' = StorePlug(p, [plug[p] EXCEPT !.syscall_hooks[sysno] = Some(hook)], shares)
    /\ last' = [NoOp(plug) EXCEPT !.op = "hook", !.self = p]
    /\ UNCHANGED <<options, ip, added, unicounter, nrep, merged, runVars, envVars>>

(***************************************************************************)
(* Interrupt and syscall bridge: _hook_intr_x86, _hook_intr_mips,          *)
(* _hook_syscall_x86_64, _hook_syscall_i386, _quick_syscall,               *)
(* _handle_syscall                                                         *)
(***************************************************************************)
\* the interrupt vectors of the model: 0 (divide error), 13 (another one),
\* 17 (EXCP_SYSCALL on MIPS) and 128 (0x80)
IntNos == {0, 13, 17, 128}

\* arch.bits
ArchBits(a) == IF a \in {"X86", "ARMEL", "MIPS32"} THEN 32 ELSE 64

\* a hook begins on plugin u with the native state nat of the episode: no
\* hook of syscall_hooks was called, syscall_hooks was not looked at
BridgeStart(u, nat) == [plug |-> u, native |-> nat, hooked |-> NoneVal, consulted |-> FALSE]

\* _UC_NATIVE.stop(self._uc_state, reason)
NativeStop(st, reason) == [st EXCEPT !.native.stop_req = Some(reason)]

\* _handle_syscall
HandleSyscall(st) ==
    NativeStop([st EXCEPT !.plug.jumpkind = "Ijk_Sys_syscall"], STOP_SYSCALL)

\* _hook_syscall_x86_64: the hook of the SYSCALL instruction, also called by
\* _hook_intr_x86 for vector 0x80 on a state of 64 bits
HookSyscallX8664(st, emu) ==
    HandleSyscall([st EXCEPT !.plug.syscall_pc = Some(emu.rip + 2)])

\* a faulty variant of HookSyscallI386: syscall_hooks is not looked at
HookSyscallI386Unhooked(st, emu) ==
    HandleSyscall([st EXCEPT !.plug.syscall_pc = Some(emu.rip + 2)])

\* _hook_syscall_i386 with _quick_syscall: the hook of the system call the
\* emulator's eax names is called on the state, or else _handle_syscall is
HookSyscallI386(st, emu) ==
    LET st1 == [st EXCEPT !.plug.syscall_pc = Some(emu.rip + 2), !.consulted = TRUE]
        sysno == emu.rax
    IN  IF sysno \in SysNos /\ ~IsNone(st1.plug.syscall_hooks[sysno])
        THEN [st1 EXCEPT !.hooked = st1.plug.syscall_hooks[sysno]]
        ELSE HandleSyscall(st1)

\* a faulty variant of HookIntrX86Body: vector 0x80 is an unhandled interrupt
HookIntrX86NoSyscall(st, a, emu, intno, handled) ==
    LET st1 == [st EXCEPT !.plug.trap_ip = Some(emu.rip)]
    IN  IF handled THEN st
        ELSE IF intno = 0 THEN NativeStop(st1, STOP_ZERO_DIV)
        ELSE NativeStop(st1, STOP_ERROR)

\* _hook_intr_x86; handled: what is_interrupt_handled returns
HookIntrX86Body(st, a, emu, intno, handled) ==
    LET st1 == [st EXCEPT !.plug.trap_ip = Some(emu.rip)]
    IN  IF handled THEN st
        ELSE IF intno = 0 THEN NativeStop(st1, STOP_ZERO_DIV)
        ELSE IF intno = 128
        THEN IF ArchBits(a) = 32 THEN HookSyscallI386(st1, emu)
             ELSE HookSyscallX8664(st1, emu)
        ELSE NativeStop(st1, STOP_ERROR)

\* _hook_intr_mips
HookIntrMipsBody(st, emu, intno) ==
    LET st1 == [st EXCEPT !.plug.trap_ip = Some(emu.rip)]
    IN  IF intno = 17
        THEN HandleSyscall([st1 EXCEPT !.plug.syscall_pc = Some(emu.rip + 4)])
        ELSE NativeStop(st1, STOP_ERROR)

\* the emulator calls a hook of plugin p, whose episode is inside the native
\* start and has asked for no stop; pc and sysno: what the emulator has by
\* then in its program counter and in the register of the system call
\* number; st: the hook's result
HookCalled(p, op, intno, handled, pc, sysno, st) ==
    LET t == run[p].thread
    IN  /\ plug' = StorePlug(p, st.plug, shares)
        /\ native' = [native EXCEPT ![p] = st.native]
        /\ tls' = ThreadLocal(t, [tls[t] EXCEPT !.regs.rip = pc, !.regs.rax = sysno])
        /\ last' = [NoOp(plug) EXCEPT !.op = op, !.self = p, !.thread = t,
                                      !.intno = intno, !.handled = handled,
                                      !.hooked = st.hooked, !.consulted = st.consulted]
        /\ UNCHANGED <<options, ip, added, unicounter, nrep, merged, arch, nextObj, dropped,
                       run, regs, smem, perms, stdout, envVars>>

\* the emulator inside the native start of p can call a hook: hook() puts the
\* hooks on the thread's handle, and a stop that was asked for ends the run
\* before another hook is called
HookEnabled(p) ==
    /\ run[p].pc = "running"
    /\ tls[run[p].thread].obj = run[p].obj
    /\ IsNone(native[p].stop_req)

\* UC_HOOK_INTR on x86_64 and i386
HookIntrX86(p, intno, handled, pc, sysno) ==
    /\ HookEnabled(p)
    /\ arch[p] \in {"X86", "AMD64"}
    /\ HookCalled(p, "intr", intno, handled, pc, sysno,
                  HookIntrX86Body(BridgeStart(plug[p], native[p]), arch[p],
                                  [rip |-> pc, rax |-> sysno], intno, handled))

\* UC_HOOK_INTR on mips and mipsel
HookIntrMips(p, intno, pc, sysno) ==
    /\ HookEnabled(p)
    /\ arch[p] = "MIPS32"
    /\ HookCalled(p, "intr", intno, FALSE, pc, sysno,
                  HookIntrMipsBody(BridgeStart(plug[p], native[p]),
                                   [rip |-> pc, rax |-> sysno], intno))

\* UC_HOOK_INSN for the SYSCALL instruction, on x86_64
HookInsnSyscall(p, pc, sysno) ==
    /\ HookEnabled(p)
    /\ arch[p] = "AMD64"
    /\ HookCalled(p, "syscall", 0, FALSE, pc, sysno,
                  HookSyscallX8664(BridgeStart(plug[p], native[p]),
                                   [rip |-> pc, rax |-> sysno]))

(***************************************************************************)
(* SimLibrary and SimSyscallLibrary                                        *)
(* (src/angr/procedures/definitions/__init__.py)                           *)
(***************************************************************************)
\* the library and its copy, function names, ABI names and library classes
LibIds == {"lib", "c"}
LibNames == {"f", "g"}
Abis == {"abi1", "abi2"}
LibKinds == {"SimLibrary", "SimSyscallLibrary"}

\* __init__ of both classes: a SimLibrary has no syscall mappings, which is
\* what None in the three last fields stands for here too
NewLibrary(kind) ==
    [kind |-> kind,
     procedures |-> [n \in LibNames |-> NoneVal],
     non_returning |-> {},
     prototypes |-> [n \in LibNames |-> NoneVal],
     default_ccs |-> [a \in ArchNames |-> NoneVal],
     names |-> << >>,
     syscall_number_mapping |-> [a \in Abis |-> NoneVal],
     syscall_name_mapping |-> [a \in Abis |-> NoneVal],
     default_cc_mapping |-> [a \in Abis |-> NoneVal]]

\* the libraries of the process: made are the objects that exist, obj holds
\* their fields, number_dicts and name_dicts the dict objects that are the
\* values of syscall_number_mapping and syscall_name_mapping (a mapping holds
\* the index of its dict), op and self the last call and the library it was
\* made on
NewLibraries(kind) ==
    [made |-> {"lib"},
     obj |-> [l \in LibIds |-> NewLibrary(kind)],
     number_dicts |-> << >>,
     name_dicts |-> << >>,
     op |-> "none", self |-> "lib"]

\* the call op on library l left the libraries as L
Called(L, op, l) == [L EXCEPT !.op = op, !.self = l]

\* lines 277-278: defaultdict(dict, mapping) makes a new mapping with the
\* keys of the old one, each with the dict object the old one has for it
CopyMappings(L, l, o) ==
    [L EXCEPT !.obj[o].syscall_number_mapping = L.obj[l].syscall_number_mapping,
              !.obj[o].syscall_name_mapping = L.obj[l].syscall_name_mapping]

\* lines 44-49 and 271-276: the fields that both copy methods copy
CopyLibraryFields(L, l, o) ==
    [L EXCEPT !.obj[o] = [NewLibrary(L.obj[l].kind) EXCEPT
                             !.procedures = L.obj[l].procedures,
                             !.non_returning = L.obj[l].non_returning,
                             !.prototypes = L.obj[l].prototypes,
                             !.default_ccs = L.obj[l].default_ccs,
                             !.names = L.obj[l].names]]

\* o = l.copy(), of SimLibrary (lines 38-50) or SimSyscallLibrary (270-280)
LibraryCopy(L, l, o) ==
    LET L1 == CopyLibraryFields(L, l, o)
    IN  IF L.obj[l].kind = "SimLibrary" THEN L1
        ELSE [CopyMappings(L1, l, o) EXCEPT
                 !.obj[o].default_cc_mapping = L.obj[l].default_cc_mapping]

\* add: the class is instantiated under the name
LibraryAdd(L, l, name, proc_cls) ==
    [L EXCEPT !.obj[l].procedures[name] = Some([cls |-> proc_cls, display_name |-> name])]

\* add_alias: a deep copy of the procedure of name under the other name;
\* KeyError when name has no procedure
LibraryAddAlias(L, l, name, alt) ==
    [L EXCEPT !.obj[l].procedures[alt] =
                  Some([Get(L.obj[l].procedures[name]) EXCEPT !.display_name = alt])]

LibrarySetPrototype(L, l, name, proto) ==
    [L EXCEPT !.obj[l].prototypes[name] = Some(proto)]

LibrarySetNonReturning(L, l, name) ==
    [L EXCEPT !.obj[l].non_returning = @ \cup {name}]

LibrarySetDefaultCc(L, l, arch_name, cc_cls) ==
    [L EXCEPT !.obj[l].default_ccs[arch_name] = Some(cc_cls)]

LibrarySetAbiCc(L, l, abi, cc_cls) ==
    [L EXCEPT !.obj[l].default_cc_mapping[abi] = Some(cc_cls)]

\* self.syscall_number_mapping[abi] and self.syscall_name_mapping[abi]: the
\* defaultdict makes an empty dict for an ABI it has none for
NumberDictOf(L, l, abi) ==
    IF IsNone(L.obj[l].syscall_number_mapping[abi])
    THEN [L EXCEPT !.number_dicts = Append(@, [n \in SysNos |-> NoneVal]),
                   !.obj[l].syscall_number_mapping[abi] = Some(Len(L.number_dicts) + 1)]
    ELSE L

NameDictOf(L, l, abi) ==
    IF IsNone(L.obj[l].syscall_name_mapping[abi])
    THEN [L EXCEPT !.name_dicts = Append(@, [n \in LibNames |-> NoneVal]),
                   !.obj[l].syscall_name_mapping[abi] = Some(Len(L.name_dicts) + 1)]
    ELSE L

\* lines 316-317 of add_number_mapping: an item is assigned in the dict of
\* the ABI, in both mappings
LibraryAddNumberMapping(L, l, abi, number, name) ==
    LET L1 == NumberDictOf(L, l, abi)
        L2 == [L1 EXCEPT !.number_dicts[Get(L1.obj[l].syscall_number_mapping[abi])][number] =
                             Some(name)]
        L3 == NameDictOf(L2, l, abi)
    IN  [L3 EXCEPT !.name_dicts[Get(L3.obj[l].syscall_name_mapping[abi])][name] =
                       Some(number)]

\* lines 326-327 of add_number_mapping_from_dict: the dicts of the ABI are
\* updated with the items of the mapping, from the i-th item on
RECURSIVE LibraryAddNumberMappingFromDict(_, _, _, _, _)
LibraryAddNumberMappingFromDict(L, l, abi, mapping, i) ==
    IF i > Len(mapping) THEN NameDictOf(NumberDictOf(L, l, abi), l, abi)
    ELSE LibraryAddNumberMappingFromDict(
             LibraryAddNumberMapping(L, l, abi, mapping[i][1], mapping[i][2]),
             l, abi, mapping, i + 1)

\* the dict a mapping has for the ABI, read without making one
NumberDict(L, l, abi) ==
    IF IsNone(L.obj[l].syscall_number_mapping[abi]) THEN [n \in SysNos |-> NoneVal]
    ELSE L.number_dicts[Get(L.obj[l].syscall_number_mapping[abi])]

NameDict(L, l, abi) ==
    IF IsNone(L.obj[l].syscall_name_mapping[abi]) THEN [n \in LibNames |-> NoneVal]
    ELSE L.name_dicts[Get(L.obj[l].syscall_name_mapping[abi])]

\* the queries of SimLibrary
HasImplementation(L, l, name) == ~IsNone(L.obj[l].procedures[name])
HasPrototype(L, l, name) == ~IsNone(L.obj[l].prototypes[name])
HasMetadata(L, l, name) ==
    \/ HasImplementation(L, l, name)
    \/ name \in L.obj[l].non_returning
    \/ HasPrototype(L, l, name)

\* lines 288-306: 0 when the ABI has no number
MinimumSyscallNumber(L, l, abi) ==
    LET ns == {n \in SysNos : ~IsNone(NumberDict(L, l, abi)[n])}
    IN  IF ns = {} THEN 0 ELSE SetMin(ns)
MaximumSyscallNumber(L, l, abi) ==
    LET ns == {n \in SysNos : ~IsNone(NumberDict(L, l, abi)[n])}
    IN  IF ns = {} THEN 0 ELSE SetMax(ns)

\* _canonicalize with one ABI in the list: the name the number has, None for
\* the name sys_<number>
Canonicalize(L, l, number, abi) == NumberDict(L, l, abi)[number]

\* has_implementation and has_metadata of SimSyscallLibrary, by number
HasImplementationByNumber(L, l, number, abi) ==
    LET name == Canonicalize(L, l, number, abi)
    IN  ~IsNone(name) /\ HasImplementation(L, l, Get(name))
HasMetadataByNumber(L, l, number, abi) ==
    LET name == Canonicalize(L, l, number, abi)
    IN  ~IsNone(name) /\ HasMetadata(L, l, Get(name))

\* the calls on library l in the process
LibraryCall(l, op, L) ==
    /\ l \in libs.made
    /\ libs' = Called(L, op, l)
    /\ UNCHANGED <<polVars, runVars, uc_native, fpu, shares>>

LibCopy(l, o) ==
    /\ o \notin libs.made
    /\ LibraryCall(l, "copy", [LibraryCopy(libs, l, o) EXCEPT !.made = @ \cup {o}])

LibAdd(l, name) == LibraryCall(l, "add", LibraryAdd(libs, l, name, "SimProcedure"))

LibAddAlias(l, name, alt) ==
    /\ HasImplementation(libs, l, name)
    /\ LibraryCall(l, "add_alias", LibraryAddAlias(libs, l, name, alt))

LibSetPrototype(l, name) ==
    LibraryCall(l, "set_prototype", LibrarySetPrototype(libs, l, name, "SimTypeFunction"))

LibSetNonReturning(l, name) ==
    LibraryCall(l, "set_non_returning", LibrarySetNonReturning(libs, l, name))

LibSetDefaultCc(l, arch_name) ==
    LibraryCall(l, "set_default_cc", LibrarySetDefaultCc(libs, l, arch_name, "SimCC"))

LibAddNumberMapping(l, abi, number, name) ==
    /\ libs.obj[l].kind = "SimSyscallLibrary"
    /\ LibraryCall(l, "add_number_mapping",
                   LibraryAddNumberMapping(libs, l, abi, number, name))

LibAddNumberMappingFromDict(l, abi, mapping) ==
    /\ libs.obj[l].kind = "SimSyscallLibrary"
    /\ LibraryCall(l, "add_number_mapping_from_dict",
                   LibraryAddNumberMappingFromDict(libs, l, abi, mapping, 1))

LibSetAbiCc(l, abi) ==
    /\ libs.obj[l].kind = "SimSyscallLibrary"
    /\ LibraryCall(l, "set_abi_cc", LibrarySetAbiCc(libs, l, abi, "SimCC"))

(***************************************************************************)
(* Initial states                                                          *)
(***************************************************************************)
\* the ids the two constructors drew from _unicounter
FirstId(p) == IF p = "p" THEN 0 ELSE 1

\* hash(self) is the identity of the plugin object
StdPlug(p, cd, th) == UnicornInit(cd, th, {}, p, FirstId(p))

ConcRegs == [r \in StateRegNames |-> ConcVal(0)]

\* a memory of concrete bytes in pages that can be read and written
FlatMemory ==
    [mem |-> [a \in MemAddrs |-> ConcVal(0)], perms |-> [g \in Pages |-> Some(3)]]

\* two plugins just constructed, of the plugin maps P, with options of O,
\* architectures of A, registers of R and a memory of M for the state of p;
\* no thread has a handle; the native library is loaded or not as N says and
\* the x87 registers are of F
InitCore(P, O, A, R, M, N, F) ==
    /\ plug \in P
    /\ options \in O
    /\ arch \in A
    /\ regs \in R
    /\ ip = [p \in PlugIds |-> 64]
    /\ added = [p \in PlugIds |-> [h \in Hashes |-> 0]]
    /\ unicounter = 2
    /\ nrep = [p \in PlugIds |-> [v \in VarNames |-> [w \in Wheres |-> 0]]]
    /\ merged = {}
    /\ tls = [t \in Threads |-> NoHandle]
    /\ nextObj = 0
    /\ dropped = {}
    /\ run = [p \in PlugIds |-> Idle]
    /\ native = [p \in PlugIds |-> NativeAlloc]
    /\ \E m \in M :
           /\ smem = [p \in PlugIds |-> IF p = "p" THEN m.mem ELSE FlatMemory.mem]
           /\ perms = [p \in PlugIds |-> IF p = "p" THEN m.perms ELSE FlatMemory.perms]
    /\ stdout = [p \in PlugIds |-> << >>]
    /\ uc_native \in N
    /\ fpu \in F
    /\ shares = {}
    /\ last = NoOp(plug)

\* no call was made on a library
InitAll(P, O, A, R, M, N, F) ==
    /\ InitCore(P, O, A, R, M, N, F)
    /\ libs = NewLibraries("SimLibrary")

\* the x87 stack is empty
NoFpu ==
    [fpround |-> 0, fc3210 |-> 0, ftop |-> 0,
     tags |-> [i \in FpSlotIds |-> 0],
     regs |-> [i \in FpSlotIds |-> ConcVal(0)]]

InitMem(P, O, A, R, M) == InitAll(P, O, A, R, M, {TRUE}, {[p \in PlugIds |-> NoFpu]})

InitWith(P, O, A, R) == InitMem(P, O, A, R, {FlatMemory})

\* what the native start can return with
Outcome(sr, steps, muts, transmits, emu, blocker, slow) ==
    [stop_reason |-> sr, steps |-> steps, muts |-> muts, transmits |-> transmits,
     emu |-> emu, blocker |-> blocker, slow |-> slow, rip |-> 68, rax |-> 1]

EmuOnes == [a \in MemAddrs |-> 1]

(***************************************************************************)
(* Episodes of two plugins on two threads                                  *)
(***************************************************************************)
Init ==
    InitWith({[p \in PlugIds |-> StdPlug(p, DefaultCooldowns, NoThresholds)]},
             {[p \in PlugIds |-> {}]},
             [PlugIds -> {"AMD64", "MIPS32"}],
             {[p \in PlugIds |-> ConcRegs]})

HandleOutcomes ==
    {Outcome(sr, 0, << >>, << >>, EmuOnes, ConcVal(0), FALSE) :
        sr \in {STOP_NORMAL, STOP_SYSCALL}}

Next ==
    \/ \E p \in PlugIds, t \in Threads : Setup(p, t)
    \/ \E p \in PlugIds : StartCall(p)
    \/ \E p \in PlugIds, out \in HandleOutcomes : StartReturn(p, out)
    \/ \E p \in PlugIds : Finish(p)
    \/ \E p \in PlugIds : Destroy(p)
    \/ \E p \in PlugIds, t \in Threads : SetState(p, t)

Spec == Init /\ [][Next]_vars

\* the handle of the thread when destroy was entered is the instance the
\* episode of last.self was set up on, last stamped by that plugin
DestroyedOwn ==
    LET h0 == last.tls0[last.thread] IN
    /\ last.op = "destroy"
    /\ h0.obj # 0
    /\ h0.obj = last.run0[last.self].obj
    /\ h0.id = Some(last.pre[last.self].unicount)

\* C3: after destroy of an episode whose stop reason is none of NORMAL,
\* STOPPOINT, SYMBOLIC_MEM, SYMBOLIC_REG the emulator instance of the episode
\* is no longer the thread's handle and is discarded, and no thread ever has a
\* discarded instance as its handle; after destroy with one of the four
\* reasons the instance is still the thread's handle
C3_HandleDiscard ==
    /\ DestroyedOwn =>
           IF Retained(last.pre[last.self].stop_reason)
           THEN tls[last.thread].obj = last.tls0[last.thread].obj
           ELSE /\ tls[last.thread].obj # last.tls0[last.thread].obj
                /\ last.tls0[last.thread].obj \in dropped
    /\ \A t \in Threads : tls[t].obj \notin dropped

\* an episode that was finished with a reason outside the four is destroyed
C3_Witness ==
    /\ DestroyedOwn
    /\ last.run0[last.self].pc = "finished"
    /\ ~Retained(last.pre[last.self].stop_reason)
    /\ last.tls0[last.thread].obj \in dropped
    /\ tls[last.thread].obj # 0

\* C4: the handles of two threads are never the same emulator instance, and
\* an operation on one thread leaves the handle of the other thread as it was
C4_HandleIsolation ==
    /\ \A t1, t2 \in Threads :
           (t1 # t2 /\ tls[t1].obj # 0) => tls[t1].obj # tls[t2].obj
    /\ \A t \in Threads \ {last.thread} : tls[t] = last.tls0[t]

\* a plugin is deserialized on t1, which had a handle, while t2 has one
C4_Witness ==
    /\ last.op = "setstate"
    /\ last.thread = "t1"
    /\ last.tls0["t1"].obj # 0
    /\ tls["t1"].obj = 0
    /\ tls["t2"].obj # 0

(***************************************************************************)
(* Episodes of one plugin over the registers it can start with             *)
(***************************************************************************)
SymX == [hash |-> "h1", variables |-> {"x"}, annotated |-> FALSE, val |-> 1]

RegFiles ==
    {[r \in StateRegNames |->
         CASE r = "rax" -> ConcVal(a)
           [] r = "rcx" -> c
           [] r = "rdx" -> ConcVal(1)
           [] r = "fs" -> ConcVal(f)
           [] r = "gs" -> ConcVal(0)
           [] r = "eflags" -> ConcVal(a)] :
        a \in {0, 1}, c \in {ConcVal(0), ConcVal(1), SymX}, f \in {0, 2 * HalfWord - 1}}

InitRegs ==
    InitWith({[p \in PlugIds |-> StdPlug(p, DefaultCooldowns, NoThresholds)]},
             {[p \in PlugIds |-> o] : o \in {{}, {"UNICORN_SYM_REGS_SUPPORT"}}},
             {[p \in PlugIds |-> a] : a \in ArchNames},
             {[p \in PlugIds |-> IF p = "p" THEN f ELSE ConcRegs] : f \in RegFiles})

RegOutcomes ==
    {Outcome(STOP_NORMAL, n, << >>, << >>, EmuOnes, ConcVal(0), FALSE) : n \in {0, 1}}

NextRegs ==
    \/ \E t \in Threads : Setup("p", t)
    \/ StartCall("p")
    \/ \E out \in RegOutcomes : StartReturn("p", out)
    \/ Finish("p")
    \/ Destroy("p")
    \/ \E t \in Threads : SetState("q", t)

SpecRegs == InitRegs /\ [][NextRegs]_vars

\* finish has run on the emulator instance its episode was set up on, and the
\* native start of the episode executed nothing
FinishedZeroSteps ==
    LET h0 == last.tls0[last.thread] IN
    /\ last.op = "finish"
    /\ native[last.self].steps = 0
    /\ h0.obj = last.run0[last.self].obj
    /\ h0.id = Some(last.pre[last.self].unicount)

\* C10: after setup, a start that executes no instruction and finish, every
\* register that is not blacklisted and was concrete before setup, and the
\* instruction pointer, hold in the symbolic state the value they held before
C10_RegisterRoundTrip ==
    FinishedZeroSteps =>
        /\ \A r \in StateRegNames \ reg_blacklist :
               last.regs0[last.self][r].variables = {} =>
                   regs[last.self][r] = last.regs0[last.self][r]
        /\ ip[last.self] = last.ip0[last.self]

\* an x86_64 episode, whose MSR writes went through RAX, RCX and RDX
C10_Witness ==
    /\ FinishedZeroSteps
    /\ arch[last.self] = "AMD64"
    /\ last.regs0[last.self].rax = ConcVal(1)
    /\ last.regs0[last.self].rcx = ConcVal(1)
    /\ last.regs0[last.self].fs.val > 0
    /\ regs[last.self].rcx = ConcVal(1)

(***************************************************************************)
(* Episodes that hand back a mutation list                                 *)
(***************************************************************************)
MutEntries ==
    {e \in [address : MemAddrs, length : 1..MaxMutLen] :
        e.address + e.length <= 2 * WidePages * PageSize}

MutLists == UNION {[1..k -> MutEntries] : k \in 0..MaxMuts}

InitReplay ==
    InitWith({[p \in PlugIds |-> StdPlug(p, DefaultCooldowns, NoThresholds)]},
             {[p \in PlugIds |-> {}]},
             {[p \in PlugIds |-> "AMD64"]},
             {[p \in PlugIds |-> ConcRegs]})

ReplayOutcomes ==
    {Outcome(sr, 1, muts, << >>, EmuOnes, ConcVal(0), FALSE) :
        sr \in {STOP_NORMAL, STOP_SEGFAULT}, muts \in MutLists}
    \cup {Outcome(STOP_NOSTART, 0, << >>, << >>, EmuOnes, ConcVal(0), FALSE)}

NextReplay ==
    \/ Setup("p", "t1")
    \/ StartCall("p")
    \/ \E out \in ReplayOutcomes : StartReturn("p", out)
    \/ Finish("p")
    \/ Destroy("p")

SpecReplay == InitReplay /\ [][NextReplay]_vars

\* entry e of a mutation list covers address a
Covers(e, a) == e.address <= a /\ a < e.address + e.length

\* C2: after finish, every address outside [0x1000, 0x2000) that an entry of
\* the mutation list covers holds the byte of the emulator's memory, and an
\* address that only entries inside [0x1000, 0x2000) cover holds what it held
C2_ReplayComplete ==
    (last.op = "finish" /\ ~last.raised) =>
        LET p == last.self
            n == native[p]
        IN  /\ \A i \in 1..Len(n.muts) : \A a \in MemAddrs :
                   (Covers(n.muts[i], a) /\ ~InGdt(a)) => smem[p][a] = ConcVal(n.emu[a])
            /\ \A a \in MemAddrs :
                   (\A i \in 1..Len(n.muts) :
                       Covers(n.muts[i], a) =>
                           /\ InGdt(n.muts[i].address)
                           /\ InGdt(n.muts[i].address + n.muts[i].length - 1))
                   => smem[p][a] = last.smem0[p][a]

(***************************************************************************)
(* Blocker reports on one plugin                                           *)
(***************************************************************************)
SymbolicValues == {d \in Values : d.variables # {}}

Thresholds(m, r, i) == [memory |-> m, registers |-> r, instruction |-> i]

InitPolicy ==
    InitWith({[p \in PlugIds |-> StdPlug(p, DefaultCooldowns,
                                          IF p = "p" THEN Thresholds(m, r, i)
                                          ELSE NoThresholds)] :
                 m \in ThresholdVals, r \in ThresholdVals, i \in {NoneVal, Some(1)}},
             {[p \in PlugIds |-> o] : o \in {{}, {"UNICORN_THRESHOLD_CONCRETIZATION"}}},
             {[p \in PlugIds |-> "AMD64"]},
             {[p \in PlugIds |-> ConcRegs]})

NextPolicy ==
    \/ \E d \in SymbolicValues, w \in Wheres : ReportSymbolicBlocker("p", d, w)
    \/ \E a \in InstAddrs : MoveIp("p", a)
    \/ \E d \in {SymX} : ClassifyValue("p", d, "mem")

SpecPolicy == InitPolicy /\ [][NextPolicy]_vars

\* threshold_concretization is set on p, its threshold for blockers from w is
\* set, and every report on a value with variable v so far was from w
OnlyReportsFrom(v, w) ==
    /\ "UNICORN_THRESHOLD_CONCRETIZATION" \in options["p"]
    /\ ~IsNone(IF w = "mem" THEN plug["p"].concretization_threshold_memory
                ELSE plug["p"].concretization_threshold_registers)
    /\ \A o \in Wheres \ {w} : nrep["p"][v][o] = 0

ThresholdFrom(w) ==
    Get(IF w = "mem" THEN plug["p"].concretization_threshold_memory
        ELSE plug["p"].concretization_threshold_registers)

\* C9 as stated: after N reports of memory blockers on values with variable v,
\* and none of register blockers, v is in always_concretize iff N >= T, T the
\* memory threshold; the same with registers for memory
C9_PromotionAtThreshold ==
    \A v \in VarNames, w \in Wheres :
        OnlyReportsFrom(v, w) =>
            (v \in plug["p"].always_concretize <=> nrep["p"][v][w] >= ThresholdFrom(w))

\* C9: after N reports of memory blockers on values with variable v, and none
\* of register blockers, v is in always_concretize iff N >= T + 1, T the memory
\* threshold: the counter is compared with T before it is incremented; the
\* same with registers for memory
C9_PromotionAfterThreshold ==
    \A v \in VarNames, w \in Wheres :
        OnlyReportsFrom(v, w) =>
            (v \in plug["p"].always_concretize <=> nrep["p"][v][w] >= ThresholdFrom(w) + 1)

\* the second report with threshold 1 has promoted x, the first had not
C9_Witness ==
    /\ OnlyReportsFrom("x", "mem")
    /\ ThresholdFrom("mem") = 1
    /\ nrep["p"]["x"]["mem"] = 2
    /\ last.op = "report"
    /\ "x" \in plug["p"].always_concretize
    /\ "x" \notin last.pre["p"].always_concretize

(***************************************************************************)
(* Merges of plugins with differing cooldowns and thresholds               *)
(***************************************************************************)
Cooldowns(n, s) ==
    [nonunicorn_blocks |-> n, symbolic_registers |-> MaxCooldown,
     symbolic_memory |-> MaxCooldown, stop_point |-> s]

MergeThresholdChoices ==
    {Thresholds(x, x, x) : x \in ThresholdVals} \cup {Thresholds(Some(0), NoneVal, Some(0))}

InitMerge ==
    InitWith({[p \in PlugIds |-> IF p = "p" THEN StdPlug(p, Cooldowns(1, s1), t1)
                                  ELSE StdPlug(p, Cooldowns(n2, s2), t2)] :
                 s1 \in 1..MaxCooldown, s2 \in 1..MaxCooldown, n2 \in 1..MaxCooldown,
                 t1 \in MergeThresholdChoices, t2 \in MergeThresholdChoices},
             {[p \in PlugIds |-> {}]},
             {[p \in PlugIds |-> "AMD64"]},
             {[p \in PlugIds |-> ConcRegs]})

MergeOutcomes ==
    {Outcome(sr, 1, << >>, << >>, EmuOnes, SymX, FALSE) :
        sr \in {STOP_STOPPOINT, STOP_SYMBOLIC_MEM, STOP_SEGFAULT}}

NextMerge ==
    \/ \E p \in PlugIds : Merge(p, PlugIds \ {p})
    \/ Setup("q", "t1")
    \/ StartCall("q")
    \/ \E out \in MergeOutcomes : StartReturn("q", out)
    \/ Finish("q")
    \/ Destroy("q")

SpecMerge == InitMerge /\ [][NextMerge]_vars

\* threshold a is at most threshold b; an unset threshold never promotes
ThresholdLeq(a, b) == IsNone(b) \/ (~IsNone(a) /\ Get(a) <= Get(b))

\* C6: merge ends, and then each cooldown and countdown of the plugin is at
\* least that of every merged input and each threshold is at most that of
\* every merged input, whatever the inputs, unset thresholds included
C6_MergeMonotone ==
    last.op = "merge" =>
        /\ ~last.raised
        /\ \A o \in last.others \cup {last.self} :
               LET u == plug[last.self]
                   i == last.pre[o]
               IN  /\ u.cooldown_nonunicorn_blocks >= i.cooldown_nonunicorn_blocks
                   /\ u.cooldown_symbolic_registers >= i.cooldown_symbolic_registers
                   /\ u.cooldown_symbolic_memory >= i.cooldown_symbolic_memory
                   /\ u.cooldown_stop_point >= i.cooldown_stop_point
                   /\ u.countdown_nonunicorn_blocks >= i.countdown_nonunicorn_blocks
                   /\ u.countdown_symbolic_registers >= i.countdown_symbolic_registers
                   /\ u.countdown_symbolic_memory >= i.countdown_symbolic_memory
                   /\ u.countdown_stop_point >= i.countdown_stop_point
                   /\ ThresholdLeq(u.concretization_threshold_memory,
                                   i.concretization_threshold_memory)
                   /\ ThresholdLeq(u.concretization_threshold_registers,
                                   i.concretization_threshold_registers)
                   /\ ThresholdLeq(u.concretization_threshold_instruction,
                                   i.concretization_threshold_instruction)

(***************************************************************************)
(* Classifier calls, episodes and merges                                   *)
(***************************************************************************)
SetThresholds == Thresholds(Some(1), Some(1), Some(1))

InitConstraints ==
    InitWith({[p \in PlugIds |->
                  UnicornInit(DefaultCooldowns, SetThresholds,
                              IF p = "q" THEN {"y"} ELSE {}, p, FirstId(p))]},
             {[p \in PlugIds |-> IF p = "p" THEN {"UNICORN_AGGRESSIVE_CONCRETIZATION"}
                                  ELSE {"UNICORN_THRESHOLD_CONCRETIZATION"}]},
             {[p \in PlugIds |-> "AMD64"]},
             {[p \in PlugIds |-> IF p = "p" THEN [ConcRegs EXCEPT !.rcx = SymX]
                                  ELSE ConcRegs]})

ConstraintOutcomes == {Outcome(STOP_NORMAL, 1, << >>, << >>, EmuOnes, ConcVal(0), FALSE)}

NextConstraints ==
    \/ \E p \in PlugIds : ClassifyValue(p, SymX, "mem")
    \/ ReportSymbolicBlocker("q", SymX, "mem")
    \/ \E p \in PlugIds : Merge(p, PlugIds \ {p})
    \/ Setup("p", "t1")
    \/ StartCall("p")
    \/ \E out \in ConstraintOutcomes : StartReturn("p", out)
    \/ Finish("p")
    \/ Destroy("p")

SpecConstraints == InitConstraints /\ [][NextConstraints]_vars

MergeInputs == {last.pre[o] : o \in last.others \cup {last.self}}

\* C7: after merge each of always_concretize, never_concretize and
\* concretize_at is the union of that set over the plugin and the others
C7_MergePolicyUnion ==
    (last.op = "merge" /\ ~last.raised) =>
        /\ plug[last.self].always_concretize = UNION {i.always_concretize : i \in MergeInputs}
        /\ plug[last.self].never_concretize = UNION {i.never_concretize : i \in MergeInputs}
        /\ plug[last.self].concretize_at = UNION {i.concretize_at : i \in MergeInputs}

\* C8: after merge the record of concretized identities holds the identities
\* that the records of the plugin and of all the others held
C8_MergeRecordIntersection ==
    (last.op = "merge" /\ ~last.raised) =>
        plug[last.self].concretized_asts =
            {h \in Hashes : \A i \in MergeInputs : h \in i.concretized_asts}

\* C18: no step of a classifier call, a blocker report, an episode or a merge
\* removes an element from always_concretize, never_concretize or
\* concretize_at of a plugin
C18_PolicyAdditive ==
    [][\A p \in PlugIds :
          /\ plug[p].always_concretize \subseteq plug'[p].always_concretize
          /\ plug[p].never_concretize \subseteq plug'[p].never_concretize
          /\ plug[p].concretize_at \subseteq plug'[p].concretize_at]_vars

\* a plugin whose reports had filled always_concretize and concretize_at was
\* merged with one that has neither element, and still has them
C18_Witness ==
    /\ last.op = "merge"
    /\ ~last.raised
    /\ last.self = "q"
    /\ "x" \in plug["q"].always_concretize
    /\ plug["q"].concretize_at # {}
    /\ "y" \in plug["q"].never_concretize
    /\ plug["p"].always_concretize = {}

(***************************************************************************)
(* Page bridge: _hook_mem_unmapped_core                                    *)
(***************************************************************************)
\* no object at an address of the symbolic memory
Absent == [hash |-> "none", variables |-> {}, annotated |-> FALSE, val |-> 0]

PageOf(a) == a \div PageSize

\* perm | 4 and perm & 2
WithExec(perm) == IF (perm \div 4) % 2 = 1 THEN perm ELSE perm + 4
Writable(perm) == (perm \div 2) % 2 = 1

\* lines 764-779: the permissions of the pages of [start, start + length), and
\* the pages that are missing
RangePages(start, length) == {g \in Pages : start <= g * PageSize /\ g * PageSize < start + length}

RangePerms(pm, opts, start, length) ==
    {IF "ENABLE_NX" \in opts THEN Get(pm[g]) ELSE WithExec(Get(pm[g])) :
        g \in {x \in RangePages(start, length) : ~IsNone(pm[x])}}

MissingPages(pm, start, length) == {g \in RangePages(start, length) : IsNone(pm[g])}

\* a faulty variant of ResolvePermission: with every page missing, a fetch is
\* looked for before strict page access
ResolvePermissionFetchFirst(pm, opts, access, start, length) ==
    LET ps == RangePerms(pm, opts, start, length)
        ms == MissingPages(pm, start, length)
    IN  IF ps = {} /\ ms # {}
        THEN IF access = "fetch"
             THEN [res |-> "FetchingZeroPage", perm |-> 0, perms |-> pm]
             ELSE IF "STRICT_PAGE_ACCESS" \in opts
             THEN [res |-> "AccessingZeroPage", perm |-> 0, perms |-> pm]
             ELSE [res |-> "ok", perm |-> 3,
                   perms |-> [g \in Pages |-> IF g \in ms THEN Some(3) ELSE pm[g]]]
        ELSE IF ms = {} /\ Cardinality(ps) = 1
        THEN [res |-> "ok", perm |-> CHOOSE x \in ps : TRUE, perms |-> pm]
        ELSE [res |-> "MixedPermissions", perm |-> 0, perms |-> pm]

\* lines 781-801: "AccessingZeroPage", "FetchingZeroPage", "MixedPermissions" or
\* "ok" with the permission of the range; when every page is missing and the
\* access is no fetch, the range is mapped in the symbolic memory
ResolvePermission(pm, opts, access, start, length) ==
    LET ps == RangePerms(pm, opts, start, length)
        ms == MissingPages(pm, start, length)
    IN  IF ps = {} /\ ms # {}
        THEN IF "STRICT_PAGE_ACCESS" \in opts
             THEN [res |-> "AccessingZeroPage", perm |-> 0, perms |-> pm]
             ELSE IF access = "fetch"
             THEN [res |-> "FetchingZeroPage", perm |-> 0, perms |-> pm]
             ELSE [res |-> "ok", perm |-> 3,
                   perms |-> [g \in Pages |-> IF g \in ms THEN Some(3) ELSE pm[g]]]
        ELSE IF ms = {} /\ Cardinality(ps) = 1
        THEN [res |-> "ok", perm |-> CHOOSE x \in ps : TRUE, perms |-> pm]
        ELSE [res |-> "MixedPermissions", perm |-> 0, perms |-> pm]

\* the object at address a begins there, and the last address of that object:
\* the objects of the memory are its runs of equal bytes
ObjectStarts(mem, a) == mem[a] # Absent /\ (a = 0 \/ mem[a - 1] # mem[a])

ObjectLast(mem, a) ==
    CHOOSE b \in MemAddrs :
        /\ a <= b
        /\ \A c \in a..b : mem[c] = mem[a]
        /\ (b + 1 \in MemAddrs => mem[b + 1] # mem[a])

\* memory.mem.load_objects(start, length): the objects that overlap the range,
\* by address, each with the first address of the range it is at
LoadObjectsSet(mem, start, length) ==
    {[addr |-> a, last_addr |-> ObjectLast(mem, a), value |-> mem[a]] :
        a \in {x \in start..(start + length - 1) :
                  mem[x] # Absent /\ (x = start \/ ObjectStarts(mem, x))}}

RECURSIVE SortByAddr(_)
SortByAddr(S) ==
    IF S = {} THEN << >>
    ELSE LET m == CHOOSE x \in S : \A y \in S : x.addr <= y.addr
         IN  <<m>> \o SortByAddr(S \ {m})

LoadObjects(mem, start, length) == SortByAddr(LoadObjectsSet(mem, start, length))

\* _taint(pos, chunk_size): the taint buffer is made if there is none, and the
\* bytes are marked TAINT_SYMBOLIC
Taint(st, pos, chunk_size) ==
    [st EXCEPT !.tainted = TRUE,
               !.taint = [a \in MemAddrs |->
                             IF pos <= a /\ a < pos + chunk_size THEN 2 ELSE st.taint[a]]]

\* a faulty variant of Missing: bytes with no object are left as the buffers have them
MissingIgnored(st, opts, pos, chunk_size) == st

\* _missing(pos, chunk_size)
Missing(st, opts, pos, chunk_size) ==
    IF "CGC_ZERO_FILL_UNCONSTRAINED_MEMORY" \notin opts
    THEN Taint(st, pos, chunk_size)
    ELSE [st EXCEPT !.data = [a \in MemAddrs |->
                                 IF pos <= a /\ a < pos + chunk_size THEN 0 ELSE st.data[a]]]

\* lines 826-841: one object of the scan
ScanObject(st, opts, ipv, mo) ==
    LET st1 == IF mo.last_addr < st.last_missing
               THEN [Missing(st, opts, mo.last_addr + 1, st.last_missing - mo.last_addr)
                        EXCEPT !.last_missing = mo.last_addr]
               ELSE st
        chunk_size == st1.last_missing - mo.addr + 1
        r == ProcessValue(st1.plug, opts, ipv, mo.value, "mem")
        st2 == IF r = "refuse" THEN Taint(st1, mo.addr, chunk_size)
               ELSE [st1 EXCEPT
                        !.plug = IF r = "concretized" THEN ConcretizePlug(@, mo.value) ELSE @,
                        !.added = IF r = "concretized" /\ ConcretizeAdds(st1.plug, mo.value)
                                  THEN LogConstraint(@, mo.value.hash) ELSE @,
                        !.data = [a \in MemAddrs |->
                                     IF mo.addr <= a /\ a < mo.addr + chunk_size
                                     THEN mo.value.val ELSE st1.data[a]]]
    IN  [st2 EXCEPT !.last_missing = mo.addr - 1]

\* lines 824-841: the objects are visited from the last to the first
RECURSIVE ScanObjects(_, _, _, _, _)
ScanObjects(i, st, opts, ipv, items) ==
    IF i = 0 THEN st
    ELSE ScanObjects(i - 1, ScanObject(st, opts, ipv, items[i]), opts, ipv, items)

\* lines 811-846: the content and the taint of the range
FillRange(u, log, opts, ipv, items, start, length) ==
    LET st0 == [plug |-> u, added |-> log, last_missing |-> start + length - 1,
                data |-> [a \in MemAddrs |-> 0], taint |-> [a \in MemAddrs |-> 0],
                tainted |-> FALSE]
        st1 == ScanObjects(Len(items), st0, opts, ipv, items)
    IN  IF st1.last_missing # start - 1
        THEN Missing(st1, opts, start, st1.last_missing - start + 1)
        ELSE st1

\* a faulty variant of Install: a range that cannot be written is handed to
\* the native cache, tainted or not
InstallByPermission(cx, fill, start, length, perm) ==
    LET inst == [start |-> start, length |-> length, perm |-> perm, data |-> fill.data,
                 taint |-> fill.taint, tainted |-> fill.tainted,
                 via |-> IF ~Writable(perm) THEN "cache_page" ELSE "mem_map"]
        cx1 == [cx EXCEPT !.plug = fill.plug, !.added = fill.added]
    IN  IF inst.via = "cache_page"
        THEN IF cx.cached THEN [cx1 EXCEPT !.installs = @ \cup {inst}, !.res = "true"]
             ELSE [cx1 EXCEPT !.res = "false"]
        ELSE IF RangePages(start, length) \cap cx.mapped # {}
        THEN [cx1 EXCEPT !.res = "UcError"]
        ELSE [cx1 EXCEPT !.mapped = @ \cup RangePages(start, length),
                         !.wrapped = @ \cup {[addr |-> start, size |-> length]},
                         !.plug.mapped = @ + 1,
                         !.activated = @ \cup RangePages(start, length),
                         !.installs = @ \cup {inst},
                         !.res = "true"]

\* lines 848-866: the range is handed to the native cache when it has no taint
\* and cannot be written, and is mapped in the emulator otherwise; mem_map
\* raises UcError (errno 11) over pages that are mapped already, and what
\* _UC_NATIVE.cache_page returns, cx.cached, is what the core returns
Install(cx, fill, start, length, perm) ==
    LET inst == [start |-> start, length |-> length, perm |-> perm, data |-> fill.data,
                 taint |-> fill.taint, tainted |-> fill.tainted,
                 via |-> IF ~fill.tainted /\ ~Writable(perm) THEN "cache_page" ELSE "mem_map"]
        cx1 == [cx EXCEPT !.plug = fill.plug, !.added = fill.added]
    IN  IF inst.via = "cache_page"
        THEN IF cx.cached THEN [cx1 EXCEPT !.installs = @ \cup {inst}, !.res = "true"]
             ELSE [cx1 EXCEPT !.res = "false"]
        ELSE IF RangePages(start, length) \cap cx.mapped # {}
        THEN [cx1 EXCEPT !.res = "UcError"]
        ELSE [cx1 EXCEPT !.mapped = @ \cup RangePages(start, length),
                         !.wrapped = @ \cup {[addr |-> start, size |-> length]},
                         !.plug.mapped = @ + 1,
                         !.activated = @ \cup RangePages(start, length),
                         !.installs = @ \cup {inst},
                         !.res = "true"]

\* _hook_mem_unmapped_core on the context cx: the plugin, the constraint log,
\* the symbolic memory and its permissions, the pages mapped in the emulator
\* and what the native side was handed; res is "true" or the exception
\* calls is the record of the calls of the core within one page fault: the
\* call on [start, start + length) that ended as r is added to those before it
RecordCall(calls, start, length, r) ==
    [r EXCEPT !.calls = Append(calls, [start |-> start, length |-> length, res |-> r.res])]

\* a faulty variant of HookMemUnmappedCore: a call that does not return True
\* leaves the state as it found it
HookMemUnmappedCoreUndone(cx, opts, ipv, access, start, length) ==
    LET rp == ResolvePermission(cx.perms, opts, access, start, length)
        items == LoadObjects(cx.mem, start, length)
        r == IF rp.res # "ok" THEN [cx EXCEPT !.res = rp.res]
             ELSE IF access = "fetch" /\ items = << >>
             THEN [cx EXCEPT !.res = "FetchingZeroPage"]
             ELSE Install([cx EXCEPT !.perms = rp.perms],
                          FillRange(cx.plug, cx.added, opts, ipv, items, start, length),
                          start, length, rp.perm)
    IN  RecordCall(cx.calls, start, length,
                   IF r.res = "true" THEN r ELSE [cx EXCEPT !.res = r.res])

HookMemUnmappedCore(cx, opts, ipv, access, start, length) ==
    LET rp == ResolvePermission(cx.perms, opts, access, start, length)
        cx1 == [cx EXCEPT !.perms = rp.perms]
        items == LoadObjects(cx.mem, start, length)
    IN  RecordCall(cx.calls, start, length,
                   IF rp.res # "ok" THEN [cx EXCEPT !.res = rp.res]
                   ELSE IF access = "fetch" /\ items = << >>
                   THEN [cx1 EXCEPT !.res = "FetchingZeroPage"]
                   ELSE Install(cx1, FillRange(cx.plug, cx.added, opts, ipv, items,
                                               start, length),
                                start, length, rp.perm))

(***************************************************************************)
(* Page bridge: _hook_mem_unmapped                                         *)
(***************************************************************************)
\* lines 690-695: the range of the access, aligned outward by align bytes
AlignedStart(address, align) == (address \div align) * align
AlignedLength(address, size, align) ==
    ((address + size + align - 1) \div align) * align - AlignedStart(address, align)

\* a faulty variant of ZeroPageGuarded: a range that ends where the address
\* space ends is not looked for
ZeroPageGuardedAtZero(opts, start, length) ==
    start = 0 /\ "UNICORN_ZEROPAGE_GUARD" \in opts

\* line 697: the range begins at 0 or ends where the address space ends, and
\* the zero page is guarded
ZeroPageGuarded(opts, start, length) ==
    /\ start = 0 \/ (start + length) % (2 * WidePages * PageSize) = 0
    /\ "UNICORN_ZEROPAGE_GUARD" \in opts

\* _UC_NATIVE.stop(self._uc_state, reason); the hook returns False. stops is
\* the record of the stops asked for within one page fault, each with the
\* number of calls of the core made before it
StopWith(cx, reason) ==
    [cx EXCEPT !.stop_req = Some(reason), !.res = "false",
               !.stops = Append(@, [calls |-> Len(cx.calls), reason |-> reason])]

\* a faulty variant of HookNarrow: the stop of the first exception is asked
\* for and the core is run once more
HookNarrowRetrying(cx, opts, ipv, access, address, size) ==
    LET start == AlignedStart(address, PageSize)
        length == AlignedLength(address, size, PageSize)
        r == HookMemUnmappedCore(cx, opts, ipv, access, start, length)
    IN  IF ZeroPageGuarded(opts, start, length) THEN StopWith(cx, STOP_ZEROPAGE)
        ELSE IF r.res = "true" THEN r
        ELSE StopWith(HookMemUnmappedCore(r, opts, ipv, access, start, length),
                      STOP_SEGFAULT)

\* lines 706-749, without size extension: what the core returned or raised,
\* r, becomes the hook's return value and a stop; UcError with errno 11 is
\* passed over and False is returned, as it is when the core returned False
NarrowOutcome(r) ==
    IF r.res = "true" THEN r
    ELSE IF r.res = "FetchingZeroPage" THEN StopWith(r, STOP_EXECNONE)
    ELSE IF r.res \in {"UcError", "false"} THEN [r EXCEPT !.res = "false"]
    ELSE StopWith(r, STOP_SEGFAULT)

\* the hook without size extension: the exceptions of the core become stops
HookNarrow(cx, opts, ipv, access, address, size) ==
    LET start == AlignedStart(address, PageSize)
        length == AlignedLength(address, size, PageSize)
    IN  IF ZeroPageGuarded(opts, start, length) THEN StopWith(cx, STOP_ZEROPAGE)
        ELSE NarrowOutcome(HookMemUnmappedCore(cx, opts, ipv, access, start, length))

\* a faulty variant of HookMemUnmapped: what the core raises with size
\* extension is final
HookWideOnly(cx, opts, ipv, access, address, size) ==
    LET align == WidePages * PageSize
        start == AlignedStart(address, align)
        length == AlignedLength(address, size, align)
        r == HookMemUnmappedCore(cx, opts, ipv, access, start, length)
    IN  IF ZeroPageGuarded(opts, start, length) THEN StopWith(cx, STOP_ZEROPAGE)
        ELSE IF r.res = "true" THEN r
        ELSE [r EXCEPT !.res = "false"]

\* lines 751-754, with size extension: unless the core returned True, as r
\* says, the hook is called again without size extension
WideOutcome(r, opts, ipv, access, address, size) ==
    IF r.res = "true" THEN r ELSE HookNarrow(r, opts, ipv, access, address, size)

\* the hook with size extension: whatever the core raises, and when it
\* returns False, the hook is called again without size extension
HookMemUnmapped(cx, opts, ipv, access, address, size) ==
    LET align == WidePages * PageSize
        start == AlignedStart(address, align)
        length == AlignedLength(address, size, align)
    IN  IF ZeroPageGuarded(opts, start, length) THEN StopWith(cx, STOP_ZEROPAGE)
        ELSE WideOutcome(HookMemUnmappedCore(cx, opts, ipv, access, start, length),
                         opts, ipv, access, address, size)

\* the state of p, the emulator of thread t and the native side once the hook
\* has returned as r says
PageServed(p, t, access, address, r) ==
    /\ plug' = StorePlug(p, r.plug, shares)
    /\ added' = [added EXCEPT ![p] = r.added]
    /\ perms' = [perms EXCEPT ![p] = r.perms]
    /\ tls' = ThreadLocal(t, [tls[t] EXCEPT !.mapped = r.mapped,
                                            !.wrapped_mapped = r.wrapped])
    /\ native' = [native EXCEPT ![p] =
                      [@ EXCEPT !.activated = r.activated, !.installs = r.installs,
                                !.stop_req = r.stop_req, !.faults = @ + 1]]
    /\ last' = [NoOp(plug) EXCEPT !.op = "fault", !.self = p, !.thread = t,
                                  !.res = r.res, !.access = access,
                                  !.address = address, !.calls = r.calls,
                                  !.stops = r.stops]
    /\ UNCHANGED <<options, ip, unicounter, nrep, merged, arch, nextObj, dropped, run,
                   regs, smem, stdout, envVars>>

\* the emulator of the episode of p reports an access to an unmapped address;
\* cached is what _UC_NATIVE.cache_page returns when the hook calls it
PageFaultNative(p, access, address, size, cached) ==
    LET t == run[p].thread
        cx == [plug |-> plug[p], added |-> added[p], mem |-> smem[p], perms |-> perms[p],
               mapped |-> tls[t].mapped, wrapped |-> tls[t].wrapped_mapped,
               activated |-> native[p].activated,
               installs |-> native[p].installs, stop_req |-> native[p].stop_req,
               cached |-> cached, res |-> "none", calls |-> << >>, stops |-> << >>]
    IN  /\ run[p].pc = "running"
        /\ native[p].faults < MaxFaults
        /\ PageOf(address) \notin tls[t].mapped
        /\ PageServed(p, t, access, address,
                      HookMemUnmapped(cx, options[p], ip[p], access, address, size))

\* a page fault for which the native cache takes the range it is handed
PageFault(p, access, address, size) == PageFaultNative(p, access, address, size, TRUE)

(***************************************************************************)
(* Episodes with page faults over memories of several layouts              *)
(***************************************************************************)
AnnY == [hash |-> "h2", variables |-> {"y"}, annotated |-> TRUE, val |-> 1]

CellKinds == {Absent, ConcVal(1), SymX, AnnY}

\* the second range of the wide alignment
UpperStart == WidePages * PageSize
UpperPages == {g \in Pages : g >= WidePages}

\* the permissions of the pages of the second range: none mapped, or the
\* pages after the first read-write and the first one not mapped, read-only
\* or read-write
PermPatterns ==
    {[g \in Pages |-> IF g \in UpperPages THEN IF g = WidePages THEN f ELSE o ELSE Some(3)] :
        f \in {NoneVal, Some(1), Some(3)}, o \in {Some(3)}}
    \cup {[g \in Pages |-> IF g \in UpperPages THEN NoneVal ELSE Some(3)]}

\* the second range holds k1 in its first s bytes and k2 in the others, but
\* nothing in a page that is not mapped
PageLayouts ==
    {[mem |-> [a \in MemAddrs |->
                  IF a < UpperStart THEN ConcVal(0)
                  ELSE IF IsNone(pm[PageOf(a)]) THEN Absent
                  ELSE IF a < UpperStart + s THEN k1 ELSE k2],
      perms |-> pm] :
        s \in {1, PageSize, WidePages * PageSize - 1},
        k1 \in CellKinds, k2 \in CellKinds \ {AnnY}, pm \in PermPatterns}

PageOptions ==
    {{}, {"CGC_ZERO_FILL_UNCONSTRAINED_MEMORY"}, {"UNICORN_AGGRESSIVE_CONCRETIZATION"}}

InitPage ==
    InitMem({[p \in PlugIds |-> StdPlug(p, DefaultCooldowns, NoThresholds)]},
            {[p \in PlugIds |-> o] : o \in PageOptions},
            {[p \in PlugIds |-> "AMD64"]},
            {[p \in PlugIds |-> ConcRegs]},
            PageLayouts)

PageOutcomes ==
    {Outcome(sr, 0, << >>, << >>, EmuOnes, ConcVal(0), FALSE) :
        sr \in {STOP_NORMAL, STOP_SEGFAULT, STOP_EXECNONE}}

NextPage ==
    \/ Setup("p", "t1")
    \/ StartCall("p")
    \/ \E access \in {"read", "fetch"}, address \in {UpperStart, UpperStart + PageSize} :
           PageFault("p", access, address, 1)
    \/ \E out \in {o \in PageOutcomes :
                        IsNone(native["p"].stop_req) => o.stop_reason = STOP_NORMAL} :
           StartReturn("p", out)
    \/ Finish("p")
    \/ Destroy("p")

SpecPage == InitPage /\ [][NextPage]_vars

\* the addresses of a range that was handed to the emulator
RangeOf(i) == i.start..(i.start + i.length - 1)

\* address a of the memory of p holds nothing, and what is missing is not zero-filled
AbsentUnfilled(p, a) ==
    /\ smem[p][a] = Absent
    /\ "CGC_ZERO_FILL_UNCONSTRAINED_MEMORY" \notin options[p]

\* C1 as stated: in every range the page bridge has handed to the emulator,
\* every byte that is symbolic in the symbolic memory, or absent from it while
\* missing bytes are not zero-filled, has a nonzero taint
C1_TaintEverySymbolic ==
    last.op = "fault" =>
        \A i \in native[last.self].installs : \A a \in RangeOf(i) :
            (smem[last.self][a].variables # {} \/ AbsentUnfilled(last.self, a))
                => (i.tainted /\ i.taint[a] # 0)

\* C1: in every range the page bridge has handed to the emulator, every byte
\* of an object that the classifier refuses (it is annotated, or symbolic and
\* not concretized by the policy), and every byte absent from the symbolic
\* memory while missing bytes are not zero-filled, has a nonzero taint; a
\* symbolic byte that the classifier concretizes is handed over with its
\* value and no taint
C1_TaintEveryRefused ==
    last.op = "fault" =>
        \A i \in native[last.self].installs : \A a \in RangeOf(i) :
            LET p == last.self
                refused == /\ smem[p][a] # Absent
                           /\ ProcessValue(plug[p], options[p], ip[p], smem[p][a], "mem")
                                  = "refuse"
                made_concrete == /\ smem[p][a] # Absent
                                 /\ ProcessValue(plug[p], options[p], ip[p], smem[p][a], "mem")
                                        = "concretized"
            IN  /\ (refused \/ AbsentUnfilled(p, a)) => (i.tainted /\ i.taint[a] # 0)
                /\ made_concrete => (i.taint[a] = 0 /\ i.data[a] = smem[p][a].val)

\* a range was handed over that has a symbolic byte, an absent byte and a
\* concrete byte
C1_Witness ==
    /\ last.op = "fault"
    /\ last.res = "true"
    /\ \E i \in native[last.self].installs :
           /\ i.length = WidePages * PageSize
           /\ \E a \in RangeOf(i) : smem[last.self][a] = SymX /\ i.taint[a] = 2
           /\ \E a \in RangeOf(i) : smem[last.self][a] = Absent /\ i.taint[a] = 2

(***************************************************************************)
(* Episodes of one plugin over the x87 registers and the registers that    *)
(* setup can be refused, with and without the native library               *)
(***************************************************************************)
\* the doubles a stack slot is drawn from: zero, denormal, normal, infinite
\* and NaN, of both signs
Doubles ==
    {Double(sign, e, fraction) :
        sign \in {0, 1}, e \in {0, 1, 1023, 2046, 2047}, fraction \in {0, 1, FracMask}}

\* the x87 registers of a state: an empty slot holds a concrete value
FpuFiles ==
    {[fpround |-> c[1], fc3210 |-> c[2], ftop |-> c[3],
      tags |-> [i \in FpSlotIds |-> IF i = 0 THEN tag0 ELSE tag1],
      regs |-> [i \in FpSlotIds |-> IF i = 0 THEN v ELSE ConcVal(Double(0, 1023, 0))]] :
        c \in {<<0, 0, 0>>, <<3, 18176, 7>>}, tag0 \in {0, 1}, tag1 \in {0, 1},
        v \in {ConcVal(d) : d \in Doubles}}
    \cup {[NoFpu EXCEPT !.tags = [i \in FpSlotIds |-> 1], !.regs[0] = AnnY]}

\* register files with values the classifier can refuse
RefusedRegFiles ==
    {[r \in StateRegNames |->
         CASE r = "rax" -> a
           [] r = "rcx" -> ConcVal(1)
           [] r = "rdx" -> d
           [] r = "fs" -> f
           [] r = "gs" -> ConcVal(0)
           [] r = "eflags" -> e] :
        a \in {ConcVal(0), AnnY}, d \in {ConcVal(1), SymX}, f \in {ConcVal(0), SymX},
        e \in {ConcVal(0), SymX, AnnY}}

SetupPlugs == {[p \in PlugIds |-> StdPlug(p, DefaultCooldowns, NoThresholds)]}

SetupOptions ==
    {[p \in PlugIds |-> o] :
        o \in {{}, {"UNICORN_SYM_REGS_SUPPORT"}, {"UNICORN_AGGRESSIVE_CONCRETIZATION"}}}

SetupArchs == {[p \in PlugIds |-> a] : a \in ArchNames \cup {"AVR8"}}

InitSetup ==
    \/ InitAll(SetupPlugs, {[p \in PlugIds |-> {}]},
               {[p \in PlugIds |-> a] : a \in {"AMD64", "X86", "MIPS32"}},
               {[p \in PlugIds |-> ConcRegs]}, {FlatMemory}, {TRUE},
               {[p \in PlugIds |-> IF p = "p" THEN f ELSE NoFpu] : f \in FpuFiles})
    \/ InitAll(SetupPlugs, SetupOptions, SetupArchs,
               {[p \in PlugIds |-> IF p = "p" THEN f ELSE ConcRegs] : f \in RefusedRegFiles},
               {FlatMemory}, BOOLEAN, {[p \in PlugIds |-> NoFpu]})

SetupOutcomes ==
    {Outcome(STOP_NORMAL, 0, << >>, << >>, EmuOnes, ConcVal(0), FALSE)}

NextSetup ==
    \/ \E t \in Threads : Setup("p", t)
    \/ StartCall("p")
    \/ \E out \in SetupOutcomes : StartReturn("p", out)
    \/ Finish("p")
    \/ Destroy("p")

SpecSetup == InitSetup /\ [][NextSetup]_vars

\* a double that is neither denormal nor NaN
Representable(val) ==
    LET e == (val \div Pow2(FracBits)) % 2048
        fraction == val % Pow2(FracBits)
    IN  e \in {0, 2047} => fraction = 0

\* C11: after setup, a start that executes no instruction and finish on an
\* x86 architecture, every x87 stack slot that held a concrete double that is
\* neither denormal nor NaN holds the same 64 bits
C11_FloatRoundTrip ==
    (FinishedZeroSteps /\ arch[last.self] \in {"X86", "AMD64"}) =>
        \A i \in FpSlotIds :
            LET v == last.fpu0[last.self].regs[i] IN
            (/\ last.fpu0[last.self].tags[i] # 0
             /\ v.variables = {}
             /\ Representable(v.val))
                => fpu[last.self].regs[i] = v

\* C12: when the native library is not loaded, setup raises the error of an
\* unsupported configuration, pushes no register to the emulator and leaves
\* the plugin without a native state
C12_NativeUnavailable ==
    (last.op = "setup" /\ ~uc_native) =>
        /\ last.error = "SimUnicornUnsupport"
        /\ tls = last.tls0
        /\ IsNone(plug[last.self].uc_state)

\* the classifier refuses a register of uc_regs that is not blacklisted, or
\* the flags of an architecture that has flags, as the state of plugin p held
\* them before the last operation
RefusedInput(p) ==
    LET Refused(v) ==
            ProcessValue(last.pre[p], options[p], last.ip0[p], v, "reg") = "refuse"
    IN  \/ \E i \in 1..Len(UcRegOrder) :
               /\ UcRegOrder[i] \notin reg_blacklist
               /\ Refused(RegValue(last.regs0[p], last.ip0[p], UcRegOrder[i]))
        \/ arch[p] # "MIPS32" /\ Refused(last.regs0[p].eflags)

\* C13: when the classifier refuses a register that is not blacklisted or
\* the flags, setup (with the native library loaded, on an architecture the
\* emulator knows) raises SimValueError and the plugin has no native state
C13_SymbolicInputRefused ==
    (/\ last.op = "setup"
     /\ uc_native
     /\ ~SetupUnicornRaises(arch[last.self])
     /\ RefusedInput(last.self)) =>
        /\ last.error = "SimValueError"
        /\ IsNone(plug[last.self].uc_state)
        /\ run[last.self].pc = "idle"
        /\ native = [native EXCEPT ![last.self] = last.native0[last.self]]

(***************************************************************************)
(* Episodes of one plugin over what the native start can hand back         *)
(***************************************************************************)
\* mutation lists: overlapping entries in both orders, an entry in the GDT
MutsForward ==
    <<[address |-> 2 * PageSize, length |-> 2], [address |-> 2 * PageSize + 1, length |-> 2]>>
MutsOverlapped ==
    <<[address |-> 2 * PageSize + 1, length |-> 2], [address |-> 2 * PageSize, length |-> 2]>>
MutsInGdt ==
    <<[address |-> PageSize, length |-> 1], [address |-> 2 * PageSize, length |-> 1]>>

\* transmit records: a buffer and the count of its bytes that were transmitted
TransmitHi == [data |-> <<104, 105>>, count |-> 2]
TransmitBang == [data |-> <<33, 0>>, count |-> 1]

\* the value a symbolic stop is blamed on
Blocker(sr) ==
    IF sr \in {STOP_SYMBOLIC_REG, STOP_SYMBOLIC_MEM} THEN SymX ELSE ConcVal(0)

\* every stop reason with and without steps and low throughput, and some
\* with memory changes and transmits
FinishOutcomes ==
    {Outcome(sr, steps, << >>, << >>, EmuOnes, Blocker(sr), slow) :
        sr \in STOP, steps \in {0, 1}, slow \in BOOLEAN}
    \cup {Outcome(sr, 1, c[1], c[2], EmuOnes, Blocker(sr), FALSE) :
              sr \in {STOP_NORMAL, STOP_NOSTART, STOP_SYMBOLIC_MEM},
              c \in {<<MutsForward, <<TransmitHi, TransmitBang>> >>,
                     <<MutsOverlapped, <<TransmitBang>> >>,
                     <<MutsInGdt, <<TransmitBang, TransmitHi>> >>}}

InitFinish ==
    InitWith({[p \in PlugIds |->
                  StdPlug(p, [DefaultCooldowns EXCEPT !.stop_point = c,
                                                      !.symbolic_registers = 1],
                          NoThresholds)] : c \in 1..MaxCooldown},
             {[p \in PlugIds |-> {}]},
             {[p \in PlugIds |-> "AMD64"]},
             {[p \in PlugIds |-> ConcRegs]})

NextFinish ==
    \/ Setup("p", "t1")
    \/ StartCall("p")
    \/ PageFault("p", "read", 2 * PageSize, 1)
    \/ \E out \in FinishOutcomes : StartReturn("p", out)
    \/ Finish("p")
    \/ Destroy("p")

SpecFinish == InitFinish /\ [][NextFinish]_vars

\* the countdowns of a plugin
Countdowns(u) ==
    <<u.countdown_nonunicorn_blocks, u.countdown_symbolic_registers,
      u.countdown_symbolic_memory, u.countdown_stop_point>>

\* C14: finish raises SimUnicornError exactly when the stop reason is NOSTART
\* and the step count is positive; when it raises, the symbolic memory, stdout
\* and the countdowns are what they were before that finish
C14_FinishRaises ==
    last.op = "finish" =>
        LET p == last.self IN
        /\ last.raised <=> (native[p].stop_reason = STOP_NOSTART /\ native[p].steps > 0)
        /\ last.raised =>
               /\ last.error = "SimUnicornError"
               /\ smem[p] = last.smem0[p]
               /\ stdout[p] = last.stdout0[p]
               /\ Countdowns(plug[p]) = Countdowns(last.pre[p])

\* finish raised although the native side had memory changes and transmits
C14_Witness ==
    /\ last.op = "finish"
    /\ last.raised
    /\ native[last.self].muts # << >>
    /\ native[last.self].transmits # << >>
    /\ plug[last.self].countdown_nonunicorn_blocks > 0

\* C15: after a finish that did not raise: when the throughput was low the
\* nonunicorn-blocks countdown is its cooldown, whatever the stop reason;
\* otherwise NORMAL and SYSCALL leave the nonunicorn-blocks countdown 0,
\* STOPPOINT leaves it 0 and the stop-point countdown at its cooldown,
\* SYMBOLIC_REG and SYMBOLIC_MEM leave their countdown at its cooldown and
\* every other reason leaves the nonunicorn-blocks countdown at its cooldown
C15_CooldownByStopReason ==
    (last.op = "finish" /\ ~last.raised) =>
        LET u == plug[last.self]
            sr == native[last.self].stop_reason
        IN  IF u.time = "slow"
            THEN u.countdown_nonunicorn_blocks = u.cooldown_nonunicorn_blocks
            ELSE CASE sr \in {STOP_NORMAL, STOP_SYSCALL} ->
                          u.countdown_nonunicorn_blocks = 0
                   [] sr = STOP_STOPPOINT ->
                          /\ u.countdown_nonunicorn_blocks = 0
                          /\ u.countdown_stop_point = u.cooldown_stop_point
                   [] sr = STOP_SYMBOLIC_REG ->
                          u.countdown_symbolic_registers = u.cooldown_symbolic_registers
                   [] sr = STOP_SYMBOLIC_MEM ->
                          u.countdown_symbolic_memory = u.cooldown_symbolic_memory
                   [] OTHER ->
                          u.countdown_nonunicorn_blocks = u.cooldown_nonunicorn_blocks

\* a finish after a stop point with a throughput that was not low
C15_Witness ==
    /\ last.op = "finish"
    /\ native[last.self].stop_reason = STOP_STOPPOINT
    /\ plug[last.self].time = "fast"
    /\ plug[last.self].countdown_nonunicorn_blocks = 0
    /\ plug[last.self].countdown_stop_point = MaxCooldown
    /\ last.pre[last.self].countdown_stop_point = 0

\* an entry of the mutation list whose bytes finish stores
OutsideGdt(e) == ~InGdt(e.address)

\* C19: the symbolic memory changes only in a finish that does not raise, and
\* that finish calls state.memory.store once for each entry of the native
\* mutation list outside the GDT, in the order of the list
C19_MutationOrder ==
    /\ [][\A p \in PlugIds :
              smem'[p] # smem[p] =>
                  (last'.op = "finish" /\ last'.self = p /\ ~last'.raised)]_vars
    /\ [](last.op = "finish" =>
              last.stores = IF last.raised THEN << >>
                            ELSE SelectSeq(native[last.self].muts, OutsideGdt))
    /\ [](last.op # "finish" => last.stores = << >>)

\* finish stored two entries that overlap, the one at the lower address last
C19_Witness ==
    /\ last.op = "finish"
    /\ Len(last.stores) = 2
    /\ last.stores[1].address > last.stores[2].address
    /\ last.stores[1].address < last.stores[2].address + last.stores[2].length
    /\ smem[last.self] # last.smem0[last.self]

\* the bytes of the transmit records from the i-th on, record by record
RECURSIVE Transmitted(_, _)
Transmitted(i, tr) ==
    IF i > Len(tr) THEN << >>
    ELSE <<SubSeq(tr[i].data, 1, tr[i].count)>> \o Transmitted(i + 1, tr)

\* C20: a finish that does not raise writes to stdout the bytes of every
\* transmit record the native side captured, count bytes of each, once, in
\* the order of their indices from 0 on, and nothing else
C20_TransmitReplay ==
    (last.op = "finish" /\ ~last.raised) =>
        stdout[last.self] =
            last.stdout0[last.self] \o Transmitted(1, native[last.self].transmits)

\* two records were written, the second one shorter than its buffer
C20_Witness ==
    /\ last.op = "finish"
    /\ ~last.raised
    /\ native[last.self].transmits = <<TransmitHi, TransmitBang>>
    /\ stdout[last.self] = <<(<<104, 105>>), (<<33>>)>>

(***************************************************************************)
(* Copies of a plugin before, within and after an episode                  *)
(***************************************************************************)
\* the step limit the constructor was given
StepLimits == {DefaultMaxSteps, 5}

InitCopy ==
    InitWith({[p \in PlugIds |->
                  [StdPlug(p, [DefaultCooldowns EXCEPT !.stop_point = c], th)
                      EXCEPT !.max_steps = m]] :
                  c \in 1..MaxCooldown, m \in StepLimits,
                  th \in {SetThresholds, Thresholds(Some(0), NoneVal, NoneVal)}},
             {[p \in PlugIds |-> {"UNICORN_THRESHOLD_CONCRETIZATION"}]},
             {[p \in PlugIds |-> "AMD64"]},
             {[p \in PlugIds |-> ConcRegs]})

CopyOutcomes ==
    {Outcome(sr, 1, << >>, << >>, EmuOnes, Blocker(sr), FALSE) :
        sr \in {STOP_STOPPOINT, STOP_SYMBOLIC_MEM}}

\* the page each plugin asks to un-cache
OwnAddr(p) == IF p = "p" THEN PageSize + 1 ELSE 2 * PageSize

NextCopy ==
    \/ Copy("p", "q")
    \/ UncachePage("p", OwnAddr("p"))
    \/ Setup("p", "t1")
    \/ StartCall("p")
    \/ \E out \in CopyOutcomes : StartReturn("p", out)
    \/ Finish("p")
    \/ Destroy("p")

SpecCopy == InitCopy /\ [][NextCopy]_vars

\* the four cooldown settings and the three thresholds of a plugin
CooldownSettings(u) ==
    <<u.cooldown_nonunicorn_blocks, u.cooldown_symbolic_registers,
      u.cooldown_symbolic_memory, u.cooldown_stop_point>>
ThresholdSettings(u) ==
    <<u.concretization_threshold_memory, u.concretization_threshold_registers,
      u.concretization_threshold_instruction>>

\* C16: the plugin that copy returns has the cache key, the four cooldown
\* settings, the four countdowns, the thresholds and the step limit of the
\* original, an equal list of pages to un-cache and no native state
C16_CopyFields ==
    last.op = "copy" =>
        \A q \in last.others :
            LET o == last.pre[last.self]
                c == plug[q]
            IN  /\ c.cache_key = o.cache_key
                /\ CooldownSettings(c) = CooldownSettings(o)
                /\ Countdowns(c) = Countdowns(o)
                /\ ThresholdSettings(c) = ThresholdSettings(o)
                /\ c.max_steps = o.max_steps
                /\ c.uncache_pages = o.uncache_pages
                /\ IsNone(c.uc_state)

(***************************************************************************)
(* Forks: copies of a plugin between reports, classifier calls, requests   *)
(* to un-cache a page and hook insertions on the original and on the copy  *)
(***************************************************************************)
InitFork ==
    InitWith({[p \in PlugIds |->
                  StdPlug(p, DefaultCooldowns, Thresholds(Some(0), NoneVal, NoneVal))]},
             {[p \in PlugIds |-> {"UNICORN_THRESHOLD_CONCRETIZATION"}]},
             {[p \in PlugIds |-> "AMD64"]},
             {[p \in PlugIds |-> ConcRegs]})

NextFork ==
    \/ Copy("p", "q")
    \/ \E p \in PlugIds : ReportSymbolicBlocker(p, SymX, "mem")
    \/ ClassifyValue("q", SymX, "mem")
    \/ UncachePage("q", OwnAddr("q"))
    \/ HookSyscall("p", 1, 1)

SpecFork == InitFork /\ [][NextFork]_vars

\* the containers of a plugin
Containers(u) == [f \in ContainerFields |-> u[f]]

\* the operations a fork is independent under
ForkOps == {"report", "classify", "uncache_page", "hook"}

\* C17: once one plugin is the copy of the other, no blocker report,
\* classifier call, uncache_page request or hook insertion on one of them
\* changes a policy set, a counter, the record of concretized values, the
\* list of pages to un-cache or the hook map of the other
C17_ForkIndependence ==
    [][\A c \in PlugIds : \A p \in PlugIds \ {c} :
          (/\ plug[c].cache_key = plug[p].cache_key
           /\ last'.op \in ForkOps
           /\ last'.self = c)
          => Containers(plug'[p]) = Containers(plug[p])]_vars

\* a report on the copy put x into the copy's always_concretize and raised
\* its counter, the original has neither; the copy had got a page to un-cache
\* before and the original a hook after the copy was made
C17_Witness ==
    /\ last.op = "report"
    /\ last.self = "q"
    /\ plug["q"].cache_key = plug["p"].cache_key
    /\ "x" \in plug["q"].always_concretize \ last.pre["q"].always_concretize
    /\ "x" \notin plug["p"].always_concretize
    /\ plug["q"].symbolic_var_counts["x"] > plug["p"].symbolic_var_counts["x"]
    /\ Len(plug["q"].uncache_pages) > Len(plug["p"].uncache_pages)
    /\ plug["p"].syscall_hooks[1] = Some(1)
    /\ IsNone(plug["q"].syscall_hooks[1])

(***************************************************************************)
(* Page faults in both wide ranges of the address space, over memories     *)
(* with missing pages, under the options the page bridge looks at          *)
(***************************************************************************)
\* the first wide range is mapped read-write or not at all; in the second
\* the first page is missing, read-only or read-write and the others are
\* missing or read-write
FaultPerms ==
    {[g \in Pages |-> IF g < WidePages THEN lo
                      ELSE IF g = WidePages THEN f ELSE o] :
        lo \in {NoneVal, Some(3)}, f \in {NoneVal, Some(1), Some(3)},
        o \in {NoneVal, Some(3)}}

\* every byte of a page that is mapped holds k
FaultLayouts ==
    {[mem |-> [a \in MemAddrs |-> IF IsNone(pm[PageOf(a)]) THEN Absent ELSE k],
      perms |-> pm] :
        k \in {Absent, ConcVal(1), SymX}, pm \in FaultPerms}

FaultOptions ==
    {{}, {"UNICORN_ZEROPAGE_GUARD"}, {"STRICT_PAGE_ACCESS"}, {"ENABLE_NX"},
     {"CGC_ZERO_FILL_UNCONSTRAINED_MEMORY"}, {"UNICORN_AGGRESSIVE_CONCRETIZATION"},
     {"UNICORN_ZEROPAGE_GUARD", "STRICT_PAGE_ACCESS"}}

InitFault ==
    InitMem({[p \in PlugIds |-> StdPlug(p, DefaultCooldowns, NoThresholds)]},
            {[p \in PlugIds |-> o] : o \in FaultOptions},
            {[p \in PlugIds |-> a] : a \in {"AMD64", "X86"}},
            {[p \in PlugIds |-> ConcRegs]},
            FaultLayouts)

\* the first address of the first page and of the pages of the second range
FaultAddrs == {0} \cup {g * PageSize : g \in UpperPages}

NextFault ==
    \/ Setup("p", "t1")
    \/ StartCall("p")
    \/ \E access \in {"read", "fetch"}, address \in FaultAddrs :
           PageFault("p", access, address, 1)

SpecFault == InitFault /\ [][NextFault]_vars

\* the wide range of the fault the last operation was
WideStart == AlignedStart(last.address, WidePages * PageSize)
WideLength == AlignedLength(last.address, 1, WidePages * PageSize)

\* the fault left the emulator, the native side, the symbolic memory and the
\* constraints of the state as they were
NothingInstalled ==
    LET p == last.self
    IN  /\ tls[last.thread].mapped = last.tls0[last.thread].mapped
        /\ native[p].installs = last.native0[p].installs
        /\ native[p].activated = last.native0[p].activated
        /\ plug[p].mapped = last.pre[p].mapped
        /\ perms[p] = last.perms0[p]
        /\ smem[p] = last.smem0[p]
        /\ added[p] = last.added0[p]
        /\ plug[p].concretized_asts = last.pre[p].concretized_asts

\* C21: a fault whose wide range begins at 0 or ends where the address space
\* ends, with the zero page guarded, asks for the stop ZEROPAGE and nothing
\* else, returns False without a call of the page-in core, maps nothing in
\* the emulator and creates no page and no constraint in the state
C21_ZeroPageGuard ==
    (/\ last.op = "fault"
     /\ "UNICORN_ZEROPAGE_GUARD" \in options[last.self]
     /\ (WideStart = 0 \/ (WideStart + WideLength) % (2 * WidePages * PageSize) = 0))
    => /\ last.stops = <<[calls |-> 0, reason |-> STOP_ZEROPAGE]>>
       /\ native[last.self].stop_req = Some(STOP_ZEROPAGE)
       /\ last.res = "false"
       /\ last.calls = << >>
       /\ NothingInstalled

\* a read of a page that is missing in a range that ends where the address
\* space ends was stopped by the guard
C21_Witness ==
    /\ last.op = "fault"
    /\ "UNICORN_ZEROPAGE_GUARD" \in options[last.self]
    /\ "STRICT_PAGE_ACCESS" \notin options[last.self]
    /\ last.address = WidePages * PageSize
    /\ last.access = "read"
    /\ IsNone(perms[last.self][WidePages])
    /\ native[last.self].stop_req = Some(STOP_ZEROPAGE)

\* the narrow range of the fault the last operation was
NarrowStart == AlignedStart(last.address, PageSize)
NarrowLength == AlignedLength(last.address, 1, PageSize)

\* the permissions the pages of the wide range have, with a page missing or
\* not, differ, and the pages of the narrow range are there with one permission
MixedAroundOne ==
    LET p == last.self
    IN  /\ last.op = "fault"
        /\ Cardinality(RangePerms(last.perms0[p], options[p], WideStart, WideLength)) > 1
        /\ MissingPages(last.perms0[p], NarrowStart, NarrowLength) = {}
        /\ Cardinality(RangePerms(last.perms0[p], options[p], NarrowStart, NarrowLength)) = 1

\* the wide attempt raised MixedPermissions, the narrow attempt handed the
\* narrow range over with the permission of its page (a page handed to the
\* page cache before is handed over again with the same record), the hook
\* returned True and asked for no stop
NarrowInstalled ==
    LET p == last.self
        pm == RangePerms(last.perms0[p], options[p], NarrowStart, NarrowLength)
    IN  /\ last.calls = <<[start |-> WideStart, length |-> WideLength,
                           res |-> "MixedPermissions"],
                          [start |-> NarrowStart, length |-> NarrowLength, res |-> "true"]>>
        /\ \E i \in native[p].installs :
               /\ i.start = NarrowStart
               /\ i.length = NarrowLength
               /\ i.perm \in pm
               /\ native[p].installs = last.native0[p].installs \cup {i}
        /\ last.res = "true"
        /\ last.stops = << >>
        /\ native[p].stop_req = last.native0[p].stop_req

InitLibrary ==
    /\ InitCore({[p \in PlugIds |-> StdPlug(p, DefaultCooldowns, NoThresholds)]},
                {[p \in PlugIds |-> {}]},
                {[p \in PlugIds |-> "AMD64"]},
                {[p \in PlugIds |-> ConcRegs]},
                {FlatMemory}, {TRUE}, {[p \in PlugIds |-> NoFpu]})
    /\ libs \in {NewLibraries(kind) : kind \in LibKinds}

NextLibrary ==
    \/ LibCopy("lib", "c")
    \/ \E l \in LibIds : LibAdd(l, IF l = "lib" THEN "f" ELSE "g")
    \/ LibAddAlias("c", "f", "g")
    \/ LibSetPrototype("c", "g")
    \/ LibSetNonReturning("c", "f")
    \/ LibSetDefaultCc("c", "AMD64")
    \/ \E l \in LibIds : LibAddNumberMapping(l, "abi1", IF l = "lib" THEN 1 ELSE 2,
                                            IF l = "lib" THEN "f" ELSE "g")
    \/ LibAddNumberMappingFromDict("c", "abi2", << <<1, "g">>, <<2, "f">> >>)
    \/ LibSetAbiCc("c", "abi2")

SpecLibrary == InitLibrary /\ [][NextLibrary]_vars

\* what the queries on library l answer
Queries(L, l) ==
    [has_implementation |-> [n \in LibNames |-> HasImplementation(L, l, n)],
     has_prototype |-> [n \in LibNames |-> HasPrototype(L, l, n)],
     has_metadata |-> [n \in LibNames |-> HasMetadata(L, l, n)],
     number_mapping |-> [a \in Abis |-> NumberDict(L, l, a)],
     name_mapping |-> [a \in Abis |-> NameDict(L, l, a)],
     minimum_syscall_number |-> [a \in Abis |-> MinimumSyscallNumber(L, l, a)],
     maximum_syscall_number |-> [a \in Abis |-> MaximumSyscallNumber(L, l, a)],
     has_implementation_by_number |->
         [a \in Abis |-> [n \in SysNos |-> HasImplementationByNumber(L, l, n, a)]],
     has_metadata_by_number |->
         [a \in Abis |-> [n \in SysNos |-> HasMetadataByNumber(L, l, n, a)]]]

\* the calls that change a library
LibMutators ==
    {"add", "add_alias", "set_prototype", "set_non_returning", "set_default_cc",
     "add_number_mapping", "add_number_mapping_from_dict", "set_abi_cc"}

\* C23: no changing call on the copy of a library changes what a query on the
\* library answers, also for an ABI that had numbers when the copy was made
C23_LibraryCopyIndependent ==
    [][(libs'.op \in LibMutators /\ libs'.self = "c")
          => Queries(libs', "lib") = Queries(libs, "lib")]_vars

(***************************************************************************)
(* The classifier under every policy                                       *)
(***************************************************************************)
\* the thresholds are unset or 0, so that a report fills always_concretize
\* or concretize_at at once; never_concretize is the constructor's argument
InitClassify ==
    InitWith({[p \in PlugIds |->
                  UnicornInit(DefaultCooldowns,
                              IF p = "p" THEN Thresholds(m, m, i) ELSE NoThresholds,
                              IF p = "p" THEN never ELSE {}, p, FirstId(p))] :
                 m \in {NoneVal, Some(0)}, i \in {NoneVal, Some(0)},
                 never \in {{}, {"x"}, {"y"}}},
             {[p \in PlugIds |-> o \cup {"UNICORN_THRESHOLD_CONCRETIZATION"}] :
                 o \in SUBSET {"UNICORN_AGGRESSIVE_CONCRETIZATION", "UNICORN_SYM_REGS_SUPPORT"}},
             {[p \in PlugIds |-> "AMD64"]},
             {[p \in PlugIds |-> ConcRegs]})

NextClassify ==
    \/ \E d \in {SymX} : ReportSymbolicBlocker("p", d, "mem")
    \/ \E a \in InstAddrs : MoveIp("p", a)
    \/ \E d \in Values, w \in Wheres : ClassifyValue("p", d, w)

SpecClassify == InitClassify /\ [][NextClassify]_vars

\* the last call was _process_value(d, from_where) on p
Classified(d) ==
    /\ last.op = "classify"
    /\ last.self = "p"
    /\ last.value = d

Aggressive == "UNICORN_AGGRESSIVE_CONCRETIZATION" \in options["p"]
Never(d) == d.variables \cap last.pre["p"].never_concretize # {}
Always(d) == d.variables \subseteq last.pre["p"].always_concretize
AtIp == ip["p"] \in last.pre["p"].concretize_at

\* C24: _process_value refuses an annotated value and returns a concrete one
\* as it is, whatever the policy; for a symbolic value without annotations
\* _symbolic_passthrough (1) concretizes it under aggressive concretization,
\* also when its variables meet never_concretize, (2) else returns it as it is
\* when its variables meet never_concretize, also when they are all in
\* always_concretize or the instruction pointer is in concretize_at, (3) else
\* concretizes it iff its variables are all in always_concretize or the
\* instruction pointer is in concretize_at; _process_value returns the
\* concretized value exactly when the passthrough concretized
C24_ClassifierPrecedence ==
    \A d \in Values :
        Classified(d) =>
            /\ d.annotated => last.res = "refuse"
            /\ (~d.annotated /\ d.variables = {}) => last.res = "concrete"
            /\ (~d.annotated /\ d.variables # {}) =>
                   /\ Aggressive => last.passed = "concretize"
                   /\ (~Aggressive /\ Never(d)) => last.passed = "same"
                   /\ (~Aggressive /\ ~Never(d)) =>
                          (last.passed = "concretize" <=> (Always(d) \/ AtIp))
                   /\ last.res = "concretized" <=> last.passed = "concretize"
                   /\ last.passed = "same" => plug = last.pre /\ added = last.added0

\* x is in never_concretize and in always_concretize and the instruction
\* pointer is in concretize_at: the value is concretized under aggressive
\* concretization
C24_Witness ==
    /\ Classified(SymX)
    /\ Aggressive
    /\ Never(SymX) /\ Always(SymX) /\ AtIp
    /\ last.res = "concretized"

\* the same policy without aggressive concretization: x stays symbolic
C24_WitnessNever ==
    /\ Classified(SymX)
    /\ ~Aggressive
    /\ Never(SymX) /\ Always(SymX) /\ AtIp
    /\ last.passed = "same"

(***************************************************************************)
(* Blocker reports and the instruction counters                            *)
(***************************************************************************)
ThresholdSet == "UNICORN_THRESHOLD_CONCRETIZATION" \in options["p"]

InstructionThreshold == plug["p"].concretization_threshold_instruction

\* a step that is one call of _report_symbolic_blocker on p
ReportStep == last'.op = "report" /\ last'.self = "p"

\* the report counts the instruction of the state, and no other
CountsInstruction ==
    plug'["p"].symbolic_inst_counts =
        [plug["p"].symbolic_inst_counts EXCEPT ![ip["p"]] = @ + 1]

\* the policy sets and the counters of p
PolicyOf(u) ==
    <<u.symbolic_var_counts, u.symbolic_inst_counts, u.always_concretize,
      u.never_concretize, u.concretize_at>>

\* C25 as stated: with the option and an instruction threshold T set, the
\* address a is in concretize_at iff its counter, the number of reports made
\* at a, is at least T
C25_PromotionOnReach ==
    (ThresholdSet /\ ~IsNone(InstructionThreshold)) =>
        \A a \in IpVals :
            a \in plug["p"].concretize_at
                <=> plug["p"].symbolic_inst_counts[a] >= Get(InstructionThreshold)

\* C25: with threshold_concretization and an instruction threshold T set, a
\* report at address a increments the counter of a by exactly 1 and no other
\* instruction counter, and a is in concretize_at iff the counter of a, the
\* number N of reports made at a, is at least T + 1: the counter is compared
\* with T before it is incremented; without threshold_concretization a report
\* changes no counter and no policy set
C25_InstructionPromotion ==
    /\ []((ThresholdSet /\ ~IsNone(InstructionThreshold)) =>
             \A a \in IpVals :
                 a \in plug["p"].concretize_at
                     <=> plug["p"].symbolic_inst_counts[a] >= Get(InstructionThreshold) + 1)
    /\ [][ReportStep =>
             /\ (ThresholdSet /\ ~IsNone(InstructionThreshold)) => CountsInstruction
             /\ ~ThresholdSet => PolicyOf(plug'["p"]) = PolicyOf(plug["p"])]_vars

\* the second report at address 64 with threshold 1 has added 64, the first
\* had not
C25_Witness ==
    /\ ThresholdSet
    /\ InstructionThreshold = Some(1)
    /\ last.op = "report"
    /\ ip["p"] = 64
    /\ plug["p"].symbolic_inst_counts[64] = 2
    /\ 64 \in plug["p"].concretize_at
    /\ 64 \notin last.pre["p"].concretize_at

(***************************************************************************)
(* Acquisitions of the handle by two plugins on two threads                *)
(***************************************************************************)
InitAcquire ==
    InitWith({[p \in PlugIds |-> StdPlug(p, DefaultCooldowns, NoThresholds)]},
             {[p \in PlugIds |-> {}]},
             {[p \in PlugIds |-> a] : a \in {"AMD64", "MIPS32"}} \cup
                 {[p \in PlugIds |-> IF p = "p" THEN "AMD64" ELSE "X86"]},
             {[p \in PlugIds |-> ConcRegs]})

NextAcquire ==
    \/ \E p \in PlugIds, t \in Threads : UcDraw(p, t)
    \/ \E p \in PlugIds : UcStamp(p)
    \/ UcMemMap("t1", 2)
    \/ PluginSetState("q")
    \/ Copy("p", "q")
    \/ SetState("q", "t2")

SpecAcquire == InitAcquire /\ [][NextAcquire]_vars

\* the ids that plugins and handles hold and the ids drawn and not yet stamped
IdsHeld ==
    {plug[p].unicount : p \in PlugIds}
        \cup UNION {tls[t].id : t \in Threads}
        \cup UNION {run[p].new_id : p \in PlugIds}

\* a step that ends an acquisition of the handle
AcquiredStep == last'.op = "uc"

\* C26: when an acquisition ends, the id of the thread's handle is the id of
\* the acquiring plugin, the id drawn for it from the global counter; a draw
\* takes the counter's value and increments the counter, which is above every
\* id that a plugin or a handle holds or that was drawn, so that an id is
\* issued once and the ids issued increase, also when the acquisitions of two
\* threads interleave
C26_IdStamping ==
    /\ [](\A n \in IdsHeld : n < unicounter)
    /\ [][AcquiredStep =>
             LET p == last'.self
                 t == last'.thread
             IN  /\ tls'[t].id = Some(plug'[p].unicount)
                 /\ tls'[t].id = run[p].new_id
                 /\ \A q \in PlugIds \ {p} :
                        /\ plug'[q].unicount # plug'[p].unicount
                        /\ run'[q].new_id # tls'[t].id
                 /\ \A o \in Threads \ {t} : tls'[o].id # tls'[t].id]_vars
    /\ [][unicounter' # unicounter =>
             /\ unicounter' > unicounter
             /\ last'.op = "draw" => run'[last'.self].new_id = Some(unicounter)]_vars

\* q drew its id after p and stamped before p: p ends its acquisition on the
\* other thread with the smaller id
C26_Witness ==
    /\ last.op = "uc"
    /\ last.self = "p"
    /\ tls["t1"].id = Some(plug["p"].unicount)
    /\ tls["t2"].id = Some(plug["q"].unicount)
    /\ plug["p"].unicount < plug["q"].unicount
    /\ last.pre["q"].unicount = plug["q"].unicount

\* the handle of the thread, the plugin and its architecture as the
\* acquisition that this step ends found them
Constructs(h, u, a) ==
    \/ h.obj = 0
    \/ h.arch # a
    \/ h.cache_key # u.cache_key
    \/ (h.id # Some(u.unicount) /\ a = "MIPS32")

\* the handle h1 is a Uniwrapper that this step constructed
NewHandle(h1) ==
    /\ h1.obj = nextObj + 1
    /\ nextObj' = nextObj + 1
    /\ h1.mapped = {}
    /\ h1.obj \notin {tls[t].obj : t \in Threads} \cup dropped

\* C27: an acquisition constructs a new handle iff the thread has none, or
\* the architecture of its handle differs, or the cache key differs, or the
\* ids differ and the architecture is MIPS32; with the same architecture and
\* cache key and another id, on an architecture that is not MIPS32, it keeps
\* the handle object and unmaps every region the handle tracks; with the same
\* architecture, cache key and id it leaves the handle and its regions as
\* they are. A fork (same cache key, an id of its own) that acquires after
\* its parent on the parent's thread is a case of the second
C27_HandleReuse ==
    [][AcquiredStep =>
          LET p == last'.self
              t == last'.thread
              h == tls[t]
              u == plug[p]
              a == arch[p]
              h1 == tls'[t]
          IN  /\ NewHandle(h1) <=> Constructs(h, u, a)
              /\ ~Constructs(h, u, a) =>
                     /\ h1.obj = h.obj
                     /\ nextObj' = nextObj
                     /\ h1.hooks = h.hooks
                     /\ h1.mapped = IF h.id # Some(u.unicount) THEN {} ELSE h.mapped
              /\ h1.arch = a /\ h1.cache_key = u.cache_key]_vars

\* q, a fork of p on AMD64, has acquired on the thread of p after p: it got
\* the handle object of p, whose mapped page is unmapped
C27_Witness ==
    /\ last.op = "uc"
    /\ last.self = "q"
    /\ arch["q"] = "AMD64"
    /\ plug["q"].cache_key = plug["p"].cache_key
    /\ last.tls0[last.thread].id = Some(plug["p"].unicount)
    /\ last.tls0[last.thread].mapped = {2}
    /\ tls[last.thread].obj = last.tls0[last.thread].obj
    /\ tls[last.thread].mapped = {}

\* the same fork on MIPS32: the handle is a new one
C27_WitnessMips ==
    /\ last.op = "uc"
    /\ last.self = "q"
    /\ arch["q"] = "MIPS32"
    /\ plug["q"].cache_key = plug["p"].cache_key
    /\ last.tls0[last.thread].id = Some(plug["p"].unicount)
    /\ tls[last.thread].obj # last.tls0[last.thread].obj

\* p acquired twice in a row on one thread: the mapped page stays
C27_WitnessSame ==
    /\ last.op = "uc"
    /\ last.tls0[last.thread].id = Some(last.pre[last.self].unicount)
    /\ last.tls0[last.thread].mapped = {2}
    /\ tls[last.thread].mapped = {2}

\* the last step served a page fault of p
Faulted == last.op = "fault" /\ last.self = "p"

\* the i-th call of the core within the last fault had the range of the
\* access aligned by align bytes
CallAligned(i, align) ==
    /\ last.calls[i].start = AlignedStart(last.address, align)
    /\ last.calls[i].length = AlignedLength(last.address, 1, align)

\* C28: within one page fault the core is called at most twice: first with the
\* range aligned to the wide alignment and, iff that call did not return
\* True, once more with the range aligned to a page; what the second call
\* does starts no third; a stop asked for before the second call returned is
\* ZEROPAGE, asked for before any call
C28_RetryProtocol ==
    Faulted =>
        /\ Len(last.calls) <= 2
        /\ Len(last.calls) >= 1 => CallAligned(1, WidePages * PageSize)
        /\ Len(last.calls) = 1 => last.calls[1].res = "true"
        /\ Len(last.calls) = 2 =>
               /\ last.calls[1].res # "true"
               /\ CallAligned(2, PageSize)
        /\ Len(last.calls) = 0 =>
               last.stops = <<[calls |-> 0, reason |-> STOP_ZEROPAGE]>>
        /\ Len(last.stops) <= 1
        /\ \A i \in 1..Len(last.stops) :
               \/ last.stops[i] = [calls |-> 0, reason |-> STOP_ZEROPAGE]
               \/ /\ last.stops[i].calls = 2
                  /\ last.stops[i].reason \in {STOP_SEGFAULT, STOP_EXECNONE}
                  /\ last.calls[2].res # "true"
        /\ last.res = "true" <=>
               (Len(last.calls) >= 1 /\ last.calls[Len(last.calls)].res = "true")

\* the wide call raised and the narrow one too: the stop was asked for after
\* the second call
C28_Witness ==
    /\ Faulted
    /\ Len(last.calls) = 2
    /\ last.calls[1].res = "MixedPermissions"
    /\ last.calls[2].res = "FetchingZeroPage"
    /\ last.stops = <<[calls |-> 2, reason |-> STOP_EXECNONE]>>

\* the wide call raised and the narrow one installed the page
C28_WitnessRetry ==
    /\ Faulted
    /\ Len(last.calls) = 2
    /\ last.calls[1].res # "true"
    /\ last.calls[2].res = "true"
    /\ last.stops = << >>

\* no page of the narrow range of the last fault was in the symbolic memory
NarrowAllMissing ==
    /\ Faulted
    /\ RangePerms(last.perms0["p"], options["p"], NarrowStart, NarrowLength) = {}

\* the fault asked for the stop reason and for no other, returned False, and
\* left the emulator and the symbolic memory as they were
StoppedWith(reason) ==
    /\ Len(last.stops) = 1
    /\ last.stops[1].reason = reason
    /\ native["p"].stop_req = Some(reason)
    /\ last.res = "false"
    /\ NothingInstalled

\* the pages of the narrow range are in the symbolic memory with permission
\* 3, and the fault mapped them in the emulator with permission perm
CreatedAndMapped(perm) ==
    /\ \A g \in RangePages(NarrowStart, NarrowLength) : perms["p"][g] = Some(3)
    /\ \E i \in native["p"].installs \ last.native0["p"].installs :
           /\ i.start <= NarrowStart
           /\ NarrowStart + NarrowLength <= i.start + i.length
           /\ i.perm = perm
           /\ i.via = "mem_map"
    /\ RangePages(NarrowStart, NarrowLength) \subseteq
           tls[last.thread].mapped \ last.tls0[last.thread].mapped
    /\ last.res = "true"
    /\ last.stops = << >>

Collided == Len(last.calls) = 2 /\ last.calls[1].res = "UcError"

C29_WitnessCollision ==
    /\ NarrowAllMissing
    /\ last.address = 0
    /\ Collided
    /\ CreatedAndMapped(7)

\* a fetch under strict page access stopped with SEGFAULT
C29_WitnessStrict ==
    /\ NarrowAllMissing
    /\ last.access = "fetch"
    /\ StoppedWith(STOP_SEGFAULT)

\* a fetch stopped with EXECNONE
C29_WitnessFetch ==
    /\ NarrowAllMissing
    /\ StoppedWith(STOP_EXECNONE)

\* what the last fault handed to the native side or mapped: the range of the
\* call of the core that returned True (a page in the native cache is not
\* mapped in the emulator and can fault again)
NewInstalls ==
    IF last.calls = << >> \/ last.calls[Len(last.calls)].res # "true" THEN {}
    ELSE {i \in native["p"].installs :
             /\ i.start = last.calls[Len(last.calls)].start
             /\ i.length = last.calls[Len(last.calls)].length}

\* a byte of the range of i is tainted
HasTaint(i) == \E a \in i.start..(i.start + i.length - 1) : i.taint[a] # 0

\* the emulator's mapped pages, the counter _mapped and the pages whose taint
\* map is activated, after the last fault and before it
MappedNow == tls[last.thread].mapped
MappedBefore == last.tls0[last.thread].mapped
ActivatedNow == native["p"].activated
ActivatedBefore == last.native0["p"].activated

\* C30: a range that a page fault pages in goes to cache_page, with nothing
\* mapped in the emulator, the counter _mapped as it was and no taint map
\* activated, iff its permission has no write bit and none of its bytes is
\* tainted; else it is mapped in the emulator with that permission, _mapped
\* is one more and the taint map of the range is activated; a fault pages in
\* one range at most, and one that pages in none changes none of the three;
\* no range with a tainted byte is in the native cache
C30_InstallationPath ==
    Faulted =>
        /\ Cardinality(NewInstalls) <= 1
        /\ native["p"].installs = last.native0["p"].installs \cup NewInstalls
        /\ last.res = "true" <=> NewInstalls # {}
        /\ NewInstalls = {} =>
               /\ MappedNow = MappedBefore
               /\ ActivatedNow = ActivatedBefore
               /\ plug["p"].mapped = last.pre["p"].mapped
        /\ \A i \in NewInstalls :
               /\ i.via = "cache_page" <=> (~Writable(i.perm) /\ ~HasTaint(i))
               /\ i.tainted <=> HasTaint(i)
               /\ i.via = "cache_page" =>
                      /\ MappedNow = MappedBefore
                      /\ ActivatedNow = ActivatedBefore
                      /\ plug["p"].mapped = last.pre["p"].mapped
               /\ i.via # "cache_page" =>
                      /\ i.via = "mem_map"
                      /\ MappedNow = MappedBefore \cup RangePages(i.start, i.length)
                      /\ RangePages(i.start, i.length) \cap MappedBefore = {}
                      /\ ActivatedNow = ActivatedBefore \cup RangePages(i.start, i.length)
                      /\ plug["p"].mapped = last.pre["p"].mapped + 1
        /\ \A i \in native["p"].installs : i.via = "cache_page" => ~HasTaint(i)

\* a read-only page of symbolic bytes was mapped in the emulator, tainted
C30_Witness ==
    /\ Faulted
    /\ \E i \in NewInstalls :
           /\ ~Writable(i.perm)
           /\ HasTaint(i)
           /\ i.via = "mem_map"
    /\ plug["p"].mapped = last.pre["p"].mapped + 1

\* a read-only page of concrete bytes went to the native cache
C30_WitnessCache ==
    /\ Faulted
    /\ \E i \in NewInstalls : i.via = "cache_page" /\ ~Writable(i.perm) /\ ~HasTaint(i)
    /\ MappedNow = MappedBefore

(***************************************************************************)
(* The interrupt and syscall bridge on x86, x86_64 and MIPS                *)
(***************************************************************************)
\* the values of the register that holds the system call number
SysNoVals == {0, 1}

InitBridge ==
    InitWith({[p \in PlugIds |-> StdPlug(p, DefaultCooldowns, NoThresholds)]},
             {[p \in PlugIds |-> {}]},
             {[p \in PlugIds |-> a] : a \in {"X86", "AMD64", "MIPS32"}},
             {[p \in PlugIds |-> ConcRegs]})

BridgeOutcomes ==
    {Outcome(sr, 1, << >>, << >>, EmuOnes, ConcVal(0), FALSE) :
        sr \in {STOP_NORMAL, STOP_SYSCALL, STOP_ZERO_DIV, STOP_ERROR}}

NextBridge ==
    \/ HookSyscall("p", 1, 1)
    \/ Setup("p", "t1")
    \/ StartCall("p")
    \/ \E intno \in IntNos, handled \in BOOLEAN, pc \in InstAddrs, sysno \in SysNoVals :
           HookIntrX86("p", intno, handled, pc, sysno)
    \/ \E intno \in IntNos, pc \in InstAddrs, sysno \in SysNoVals :
           HookIntrMips("p", intno, pc, sysno)
    \/ \E pc \in InstAddrs, sysno \in SysNoVals : HookInsnSyscall("p", pc, sysno)
    \/ \E out \in BridgeOutcomes : StartReturn("p", out)
    \/ Finish("p")
    \/ Destroy("p")

SpecBridge == InitBridge /\ [][NextBridge]_vars

\* the last operation was the interrupt hook of x86 on plugin p
IntrX86 ==
    /\ last.op = "intr"
    /\ arch[last.self] \in {"X86", "AMD64"}

\* what the emulator had in its program counter and in the register of the
\* system call number when the last hook was called
HookPc == tls[last.thread].regs.rip
HookSysNo == tls[last.thread].regs.rax

\* the hook asked for the stop reason
StopRequested(reason) == native[last.self].stop_req = Some(reason)

\* the hook asked for no stop
NoStopRequested == native[last.self].stop_req = last.native0[last.self].stop_req

\* the hook of syscall_hooks for the system call number, when there is one
HookFor(u, sysno) == IF sysno \in SysNos THEN u.syscall_hooks[sysno] ELSE NoneVal

\* the system call was handed off by _hook_syscall_i386: the address after
\* the instruction is recorded and either the hook of the system call number
\* was called on the state, or the stop SYSCALL was asked for with the jump
\* kind "syscall"
HandedOffI386 ==
    LET p == last.self
        hook == HookFor(last.pre[p], HookSysNo)
    IN  /\ plug[p].syscall_pc = Some(HookPc + 2)
        /\ last.consulted
        /\ IF ~IsNone(hook)
           THEN /\ last.hooked = hook
                /\ NoStopRequested
                /\ plug[p].jumpkind = last.pre[p].jumpkind
           ELSE /\ IsNone(last.hooked)
                /\ StopRequested(STOP_SYSCALL)
                /\ plug[p].jumpkind = "Ijk_Sys_syscall"

\* the system call was handed off by _handle_syscall without a look at
\* syscall_hooks
HandedOffStop(len) ==
    LET p == last.self
    IN  /\ plug[p].syscall_pc = Some(HookPc + len)
        /\ ~last.consulted
        /\ IsNone(last.hooked)
        /\ StopRequested(STOP_SYSCALL)
        /\ plug[p].jumpkind = "Ijk_Sys_syscall"

\* the hook returned at once: no stop, the plugin as it was
NothingHandled ==
    /\ NoStopRequested
    /\ plug[last.self] = last.pre[last.self]
    /\ IsNone(last.hooked)

\* the hook stopped with the reason and recorded the trap address
StoppedAtTrap(reason) ==
    /\ StopRequested(reason)
    /\ plug[last.self].trap_ip = Some(HookPc)
    /\ plug[last.self].jumpkind = last.pre[last.self].jumpkind
    /\ IsNone(last.hooked)

\* C31 as stated: an interrupt that is not handled stops with ZERO_DIV for
\* vector 0, is handed off as a system call for vector 0x80 on a state of 32
\* bits, and stops with ERROR for any other vector
C31_OtherVectorsError ==
    IntrX86 =>
        IF last.handled THEN NothingHandled
        ELSE IF last.intno = 0 THEN StoppedAtTrap(STOP_ZERO_DIV)
        ELSE IF last.intno = 128 /\ ArchBits(arch[last.self]) = 32 THEN HandedOffI386
        ELSE StoppedAtTrap(STOP_ERROR)

\* C31: an interrupt of x86 that the native side did not handle stops with
\* ZERO_DIV for vector 0, is handed off as a system call for vector 0x80 (by
\* the hook of i386 on a state of 32 bits, by the hook of x86_64 otherwise),
\* and stops with ERROR for any other vector; an interrupt that the native
\* side reports as handled asks for no stop and leaves the jump kind, the
\* trap address and every other field of the plugin as they were
C31_InterruptClassification ==
    IntrX86 =>
        IF last.handled THEN NothingHandled
        ELSE IF last.intno = 0 THEN StoppedAtTrap(STOP_ZERO_DIV)
        ELSE IF last.intno = 128
        THEN /\ plug[last.self].trap_ip = Some(HookPc)
             /\ IF ArchBits(arch[last.self]) = 32 THEN HandedOffI386 ELSE HandedOffStop(2)
        ELSE StoppedAtTrap(STOP_ERROR)

\* vector 0x80 on a state of 64 bits was handed off as a system call
C31_Witness ==
    /\ IntrX86
    /\ ~last.handled
    /\ last.intno = 128
    /\ arch[last.self] = "AMD64"
    /\ StopRequested(STOP_SYSCALL)

\* an interrupt that the native side had handled, after an interrupt of the
\* episode before had recorded a trap address
C31_WitnessHandled ==
    /\ IntrX86
    /\ last.handled
    /\ last.intno = 0
    /\ ~IsNone(plug[last.self].trap_ip)
    /\ plug[last.self].trap_ip # Some(HookPc)

\* vector 13 stopped with ERROR
C31_WitnessError ==
    /\ IntrX86
    /\ ~last.handled
    /\ last.intno = 13
    /\ StopRequested(STOP_ERROR)

\* the last operation was a hook that met a system call: vector 0x80 on x86
\* that the native side had not handled, the SYSCALL instruction on x86_64,
\* or EXCP_SYSCALL on MIPS
SyscallMet ==
    \/ last.op = "syscall"
    \/ IntrX86 /\ ~last.handled /\ last.intno = 128
    \/ last.op = "intr" /\ arch[last.self] = "MIPS32" /\ last.intno = 17

\* C32: a system call on i386 whose number has a hook in syscall_hooks calls
\* that hook on the state, asks for no stop and leaves the jump kind
\* "Ijk_Boring"; every other system call (i386 without a hook, x86_64, MIPS)
\* asks for the stop SYSCALL and makes the jump kind "Ijk_Sys_syscall", and
\* on x86_64 and MIPS syscall_hooks is not looked at; start makes the jump
\* kind "Ijk_Boring"
C32_SyscallHandOff ==
    LET p == last.self
        hook == HookFor(last.pre[p], HookSysNo)
    IN  /\ SyscallMet =>
               IF arch[p] = "X86" /\ ~IsNone(hook)
               THEN /\ last.consulted
                    /\ last.hooked = hook
                    /\ IsNone(native[p].stop_req)
                    /\ plug[p].jumpkind = "Ijk_Boring"
               ELSE /\ IsNone(last.hooked)
                    /\ StopRequested(STOP_SYSCALL)
                    /\ plug[p].jumpkind = "Ijk_Sys_syscall"
                    /\ arch[p] # "X86" => ~last.consulted
        /\ last.op = "start" => plug[p].jumpkind = "Ijk_Boring"

\* a system call on i386 was served by its hook
C32_Witness ==
    /\ SyscallMet
    /\ arch[last.self] = "X86"
    /\ last.hooked = Some(1)
    /\ IsNone(native[last.self].stop_req)
    /\ plug[last.self].jumpkind = "Ijk_Boring"

\* a start after an episode that a system call had ended
C32_WitnessStart ==
    /\ last.op = "start"
    /\ last.pre[last.self].jumpkind = "Ijk_Sys_syscall"

\* a system call on MIPS while its number has a hook
C32_WitnessMips ==
    /\ SyscallMet
    /\ arch[last.self] = "MIPS32"
    /\ ~IsNone(HookFor(last.pre[last.self], HookSysNo))
    /\ StopRequested(STOP_SYSCALL)

(***************************************************************************)
(* get_regs on the bytes of the register file                              *)
(***************************************************************************)
\* the file of the state: every byte differs from every other and from what
\* the emulator holds
StateFiles == {[o \in FileOffsets |-> 10 + o]}

\* what the emulator holds for the bytes of the file
EmuFiles == {[o \in FileOffsets |-> o]}

InitEgress ==
    InitWith({[p \in PlugIds |-> StdPlug(p, DefaultCooldowns, NoThresholds)]},
             {[p \in PlugIds |-> o] : o \in {{}, {"UNICORN_SYM_REGS_SUPPORT"}}},
             {[p \in PlugIds |-> "AMD64"]},
             {[p \in PlugIds |-> ConcRegs]})

NextEgress ==
    \E file \in StateFiles, emu \in EmuFiles, reported \in SUBSET FileOffsets :
        GetRegsCall("p", file, emu, reported)

SpecEgress == InitEgress /\ [][NextEgress]_vars

\* the last operation was get_regs with sym_regs_support set
EgressTracked ==
    /\ last.op = "get_regs"
    /\ "UNICORN_SYM_REGS_SUPPORT" \in options[last.self]

\* every offset that was reported holds what it held before get_regs
ReportedPreserved == \A o \in last.reported : last.file[o] = last.file0[o]

\* C33 as stated: every offset that was reported holds what it held before,
\* and every offset that was not reported holds the emulator's value
C33_UnreportedFromEmulator ==
    EgressTracked =>
        /\ ReportedPreserved
        /\ \A o \in FileOffsets \ last.reported : last.file[o] = last.emu[o]

\* C33: with sym_regs_support set, every offset of the register file that the
\* native side reported holds after get_regs what it held before, whatever
\* the set of reported offsets is; an offset that was not reported holds the
\* emulator's value when its register is one that egress reads, and what it
\* held before when its register is blacklisted
C33_SymbolicRegistersPreserved ==
    EgressTracked =>
        /\ ReportedPreserved
        /\ \A o \in FileOffsets \ last.reported :
               last.file[o] = IF RegAt(o) \in reg_blacklist THEN last.file0[o]
                              ELSE last.emu[o]

\* offsets that do not follow each other and a run that crosses from one
\* register word into the next were reported, with a byte of a register that
\* egress reads left out
C33_Witness ==
    /\ EgressTracked
    /\ last.reported = {0, WordBytes - 1, WordBytes, 2 * WordBytes - 1} \cup {2 * WordBytes}
    /\ last.file0[0] # last.emu[0]
    /\ last.file[0] = last.file0[0]
    /\ last.file[WordBytes] = last.file0[WordBytes]

(***************************************************************************)
(* The mapped regions and the hooks of the handle over an episode          *)
(***************************************************************************)
InitLifecycle ==
    InitWith({[p \in PlugIds |-> StdPlug(p, DefaultCooldowns, NoThresholds)]},
             {[p \in PlugIds |-> {}]},
             {[p \in PlugIds |-> "X86"]},
             {[p \in PlugIds |-> ConcRegs]})

LifecycleOutcomes ==
    {Outcome(sr, 1, << >>, << >>, EmuOnes, ConcVal(0), FALSE) :
        sr \in {STOP_NORMAL, STOP_SYSCALL}}

NextLifecycle ==
    \/ Setup("p", "t1")
    \/ Hook("p")
    \/ StartCall("p")
    \/ PageFault("p", "read", WidePages * PageSize, 1)
    \/ \E out \in LifecycleOutcomes : StartReturn("p", out)
    \/ Finish("p")
    \/ Destroy("p")
    \/ Copy("p", "q")
    \/ UcDraw("q", "t1")
    \/ UcStamp("q")

SpecLifecycle == InitLifecycle /\ [][NextLifecycle]_vars

\* the mapped-region set of handle h holds the regions that the emulator
\* instance has mapped by calls of the handle, and no two of them overlap
RegionsTracked(h) ==
    /\ h.mapped = PagesOfRegions(h.wrapped_mapped)
    /\ \A r1, r2 \in h.wrapped_mapped :
           r1 # r2 => RegionPages(r1.addr, r1.size) \cap RegionPages(r2.addr, r2.size) = {}

\* the last operation was a read of self.uc that reset the handle of the
\* thread: the handle was of the plugin's architecture and cache key and
\* bore another id
HandleWasReset ==
    LET h0 == last.tls0[last.thread]
        u0 == last.pre[last.self]
    IN  /\ last.op = "uc"
        /\ ~UcConstructs(h0, u0, arch[last.self])
        /\ h0.id # Some(u0.unicount)

\* C34: the mapped-region set of every thread's handle holds exactly the
\* regions mapped by calls of the handle and not unmapped since; a reset of
\* the handle unmaps them all, leaves the set empty and the hook set as it
\* was; after destroy the thread's handle has an empty mapped-region set and
\* an empty hook set, and the native state of the plugin is None
C34_MappingLifecycle ==
    LET h == tls[last.thread]
    IN  /\ \A t \in Threads : RegionsTracked(tls[t])
        /\ HandleWasReset =>
               /\ h.obj = last.tls0[last.thread].obj
               /\ h.mapped = {}
               /\ h.wrapped_mapped = {}
               /\ h.hooks = last.tls0[last.thread].hooks
        /\ last.op = "destroy" =>
               /\ h.mapped = {}
               /\ h.wrapped_mapped = {}
               /\ h.hooks = {}
               /\ IsNone(plug[last.self].uc_state)

\* a handle with two mapped regions and hooks on it was reset
C34_Witness ==
    /\ HandleWasReset
    /\ Cardinality(last.tls0[last.thread].wrapped_mapped) >= 2
    /\ last.tls0[last.thread].hooks # {}
    /\ tls[last.thread].hooks # {}

\* a plugin was destroyed on a handle with mapped regions and hooks, and the
\* handle was kept
C34_WitnessDestroy ==
    /\ last.op = "destroy"
    /\ last.tls0[last.thread].wrapped_mapped # {}
    /\ last.tls0[last.thread].hooks # {}
    /\ tls[last.thread].obj = last.tls0[last.thread].obj

(***************************************************************************)
(* The handle of an episode between setup and finish                       *)
(***************************************************************************)
InitStability ==
    InitWith({[p \in PlugIds |-> StdPlug(p, DefaultCooldowns, NoThresholds)]},
             {[p \in PlugIds |-> {}]},
             {[p \in PlugIds |-> a] : a \in {"X86", "MIPS32"}},
             {[p \in PlugIds |-> ConcRegs]})

StabilityOutcomes == {Outcome(STOP_NORMAL, 1, << >>, << >>, EmuOnes, ConcVal(0), FALSE)}

NextStability ==
    \/ Setup("p", "t1")
    \/ Hook("p")
    \/ StartCall("p")
    \/ \E out \in StabilityOutcomes : StartReturn("p", out)
    \/ Finish("p")
    \/ UcDraw("q", "t1")
    \/ UcStamp("q")
    \/ Merge("p", {"q"})
    \/ SetState("q", "t1")

SpecStability == InitStability /\ [][NextStability]_vars

\* the episode of p is between its setup and its finish
InEpisode(p) == run[p].pc \in {"setup", "running", "stopped"}

\* the thread of p has a handle, and p was the last to acquire it
Owned(p) ==
    /\ tls[run[p].thread].obj # 0
    /\ tls[run[p].thread].id = Some(plug[p].unicount)

\* the step is a read of self.uc of p inside its episode: hook() or finish()
AcquiresInside(p) ==
    /\ InEpisode(p)
    /\ last'.op \in {"hook", "finish"}
    /\ last'.self = p

\* the step is a read of self.uc of another plugin on the thread of p
OtherAcquires(p) ==
    /\ last'.op \in {"uc", "setup", "hook", "finish", "destroy"}
    /\ last'.self # p
    /\ last'.thread = run[p].thread

\* the step refreshes the id of p: merge, or __setstate__ on p
IdRefreshed(p) ==
    /\ last'.op \in {"merge", "setstate"}
    /\ last'.self = p

\* the step is __setstate__ of another plugin on the thread of p
OtherLoaded(p) ==
    /\ last'.op = "setstate"
    /\ last'.self # p
    /\ last'.thread = run[p].thread

\* the read of self.uc returns the handle that was there, with its regions
SameHandle(p) ==
    LET t == run[p].thread
    IN  /\ tls'[t].obj = tls[t].obj
        /\ tls[t].wrapped_mapped \subseteq tls'[t].wrapped_mapped

\* the read of self.uc returns a new emulator instance, or the handle that
\* was there with no region mapped
ResetOrReplaced(p) ==
    LET t == run[p].thread
    IN  \/ tls'[t].obj # tls[t].obj
        \/ tls'[t].obj = tls[t].obj /\ tls[t].obj # 0 /\ tls'[t].wrapped_mapped = {}

\* what a step does to the handle of the episode of p, when the events that
\* take the handle from p are those of events
StabilityStep(p, event) ==
    /\ (InEpisode(p) /\ Owned(p) /\ ~AcquiresInside(p)) => (Owned(p)' <=> ~event)
    /\ (InEpisode(p) /\ ~Owned(p) /\ ~AcquiresInside(p)) => ~Owned(p)'
    /\ AcquiresInside(p) =>
           /\ Owned(p)'
           /\ IF Owned(p) THEN SameHandle(p) ELSE ResetOrReplaced(p)

PageInAccesses ==
    {[address |-> a, size |-> 1] : a \in FaultAddrs}
    \cup {[address |-> g * PageSize + PageSize - 1, size |-> 2] : g \in {0, WidePages}}

NextPageIn ==
    \/ Setup("p", "t1")
    \/ StartCall("p")
    \/ \E access \in {"read", "fetch"}, f \in PageInAccesses, cached \in BOOLEAN :
           PageFaultNative("p", access, f.address, f.size, cached)

SpecPageIn == InitFault /\ [][NextPageIn]_vars

\* the hook returned False to the emulator
PageInFailed == last.op = "fault" /\ last.res = "false"

\* the hook asked for a stop during the fault, with one of the reasons of rs,
\* and the native side holds it
StopSurfaced(rs) ==
    /\ last.stops # << >>
    /\ last.stops[Len(last.stops)].reason \in rs
    /\ native[last.self].stop_req = Some(last.stops[Len(last.stops)].reason)

\* the core without size extension ended as res says
NarrowEnded(res) == Len(last.calls) = 2 /\ last.calls[2].res = res

\* C36: when the hook returns False to the emulator it has asked for a native
\* stop with ZEROPAGE, SEGFAULT or EXECNONE, also when mem_map raised in the
\* attempt without size extension and when cache_page returned False
C36_FailedPageInStops ==
    PageInFailed => StopSurfaced({STOP_ZEROPAGE, STOP_SEGFAULT, STOP_EXECNONE})

\* the hook returns False with no stop asked for exactly when the attempt
\* without size extension ended with UcError of mem_map or with False of
\* cache_page, and with one of the three stops otherwise
C36_StopsUnlessNotMapped ==
    PageInFailed =>
        IF NarrowEnded("UcError") \/ NarrowEnded("false")
        THEN /\ last.stops = << >>
             /\ native[last.self].stop_req = last.native0[last.self].stop_req
        ELSE StopSurfaced({STOP_ZEROPAGE, STOP_SEGFAULT, STOP_EXECNONE})

\* mem_map raised in both attempts, over the page of the GDT: the hook
\* returned False and no stop was asked for
C36_WitnessMapping ==
    /\ PageInFailed
    /\ NarrowEnded("UcError")
    /\ IsNone(native[last.self].stop_req)

\* cache_page returned False in the attempt without size extension: the hook
\* returned False and no stop was asked for
C36_WitnessCache ==
    /\ PageInFailed
    /\ NarrowEnded("false")
    /\ IsNone(native[last.self].stop_req)

(***************************************************************************)
(* What a call of the core with size extension leaves in the state when    *)
(* the hook goes on without size extension                                 *)
(***************************************************************************)
\* the pages that the last fault created in the symbolic memory
PagesCreated ==
    {g \in Pages : IsNone(last.perms0[last.self][g]) /\ ~IsNone(perms[last.self][g])}

\* the hook without size extension on the state the last fault began in
NarrowAlone ==
    LET p == last.self
        t == last.thread
    IN  HookNarrow([plug |-> last.pre[p], added |-> last.added0[p], mem |-> last.smem0[p],
                    perms |-> last.perms0[p], mapped |-> last.tls0[t].mapped,
                    wrapped |-> last.tls0[t].wrapped_mapped,
                    activated |-> last.native0[p].activated,
                    installs |-> last.native0[p].installs,
                    stop_req |-> last.native0[p].stop_req,
                    cached |-> TRUE, res |-> "none", calls |-> << >>, stops |-> << >>],
                   options[p], ip[p], last.access, last.address, 1)

\* the state after the last fault is the one that the hook without size
\* extension alone leaves: the call with size extension left nothing
AsNarrowAlone(r) ==
    LET p == last.self
    IN  /\ perms[p] = r.perms
        /\ added[p] = r.added
        /\ plug[p].concretized_asts = r.plug.concretized_asts
        /\ PagesCreated = IF last.res = "true"
                          THEN MissingPages(last.perms0[p], NarrowStart, NarrowLength)
                          ELSE {}

\* the hook went on without size extension
FellBack == Faulted /\ Len(last.calls) = 2

\* the call with size extension resolved the permission of its range and
\* failed when it installed the range
WideFailedInstalling == last.calls[1].res \in {"UcError", "false"}

\* C37 as stated: whenever the hook goes on without size extension, the call
\* with size extension left no page and no constraint in the state
C37_WideAttemptNoEffect == FellBack => AsNarrowAlone(NarrowAlone)

\* C37: when the hook goes on without size extension, the call with size
\* extension left no page and no constraint in the state, unless it failed
\* when it installed its range: then the pages of the wide range that were
\* missing were created by it, with permission 3, and they stay, whatever
\* range is installed afterwards
C37_FailedWideEffect ==
    FellBack =>
        IF WideFailedInstalling
        THEN /\ PagesCreated = MissingPages(last.perms0[last.self], WideStart, WideLength)
             /\ \A g \in PagesCreated : perms[last.self][g] = Some(3)
        ELSE AsNarrowAlone(NarrowAlone)

\* the call with size extension raised before it installed anything, and the
\* call without size extension created and installed the page of the access
C37_Witness ==
    /\ FellBack
    /\ ~WideFailedInstalling
    /\ last.res = "true"
    /\ PagesCreated = RangePages(NarrowStart, NarrowLength)

\* the call with size extension created the pages of the wide range and could
\* not map it: more pages were created than the range installed has
C37_WitnessCollision ==
    /\ FellBack
    /\ WideFailedInstalling
    /\ last.res = "true"
    /\ PagesCreated = RangePages(WideStart, WideLength)
    /\ PagesCreated # RangePages(NarrowStart, NarrowLength)

(***************************************************************************)
(* Episodes of plugins whose nonunicorn-blocks countdown and cooldown have *)
(* every value at the start                                                *)
(***************************************************************************)
InitCountdown ==
    InitWith({[p \in PlugIds |->
                  [StdPlug(p, Cooldowns(n, 1), NoThresholds)
                      EXCEPT !.countdown_nonunicorn_blocks = k]] :
                  n \in 0..MaxCooldown, k \in 0..MaxCooldown},
             {[p \in PlugIds |-> {}]},
             {[p \in PlugIds |-> "AMD64"]},
             {[p \in PlugIds |-> ConcRegs]})

CountdownOutcomes ==
    {Outcome(sr, steps, << >>, << >>, EmuOnes, Blocker(sr), slow) :
        sr \in STOP, steps \in {0, 1}, slow \in BOOLEAN}

NextCountdown ==
    \/ Setup("p", "t1")
    \/ StartCall("p")
    \/ \E out \in CountdownOutcomes : StartReturn("p", out)
    \/ Finish("p")
    \/ Destroy("p")

SpecCountdown == InitCountdown /\ [][NextCountdown]_vars

\* the nonunicorn-blocks countdown of u is at its cooldown
NonunicornArmed(u) == u.countdown_nonunicorn_blocks = u.cooldown_nonunicorn_blocks

\* C38: start leaves the nonunicorn-blocks countdown at its cooldown, whatever
\* it was; finish sets it to 0 for the stop reasons NORMAL, SYSCALL and
\* STOPPOINT and for no other, unless the throughput was low, so that after
\* the finish of an episode that stopped with SYMBOLIC_REG or SYMBOLIC_MEM
\* the countdown is at its cooldown
C38_NonunicornCountdown ==
    LET u == plug[last.self]
        sr == native[last.self].stop_reason
    IN  /\ last.op = "start" => NonunicornArmed(u)
        /\ last.op = "finish" =>
               /\ sr \in {STOP_SYMBOLIC_REG, STOP_SYMBOLIC_MEM} => NonunicornArmed(u)
               /\ sr \notin {STOP_NORMAL, STOP_SYSCALL, STOP_STOPPOINT} => NonunicornArmed(u)
               /\ (sr \in {STOP_NORMAL, STOP_SYSCALL, STOP_STOPPOINT} /\ u.time # "slow")
                      => u.countdown_nonunicorn_blocks = 0
               /\ u.cooldown_nonunicorn_blocks = last.pre[last.self].cooldown_nonunicorn_blocks

\* an episode that began with the countdown at 0 and stopped over symbolic
\* memory with a throughput that was not low: after finish the countdown is at
\* its cooldown, which is not 0
C38_Witness ==
    /\ last.op = "finish"
    /\ native[last.self].stop_reason = STOP_SYMBOLIC_MEM
    /\ plug[last.self].time = "fast"
    /\ plug[last.self].countdown_nonunicorn_blocks = MaxCooldown
    /\ plug[last.self].countdown_symbolic_memory = MaxCooldown

\* start found the countdown away from its cooldown
C38_WitnessStart ==
    /\ last.op = "start"
    /\ last.pre[last.self].countdown_nonunicorn_blocks = 0
    /\ plug[last.self].countdown_nonunicorn_blocks = MaxCooldown

(***************************************************************************)
(* The pairing of stack slots, tags and emulator registers by set_regs and *)
(* get_regs                                                                *)
(***************************************************************************)
\* what get_regs makes of the register that set_regs wrote for a slot that
\* held v
ReadBack(v) ==
    LET fp == WriteFp(tls[last.thread].fp, 0, DoubleToExtended(v.val))
    IN  ConcVal(ExtendedToDouble(ReadFp(fp, 0)[1], ReadFp(fp, 0)[2]))

\* slot i of the state after the episode is what the tag it had asks for
SlotPaired(i) ==
    LET f0 == last.fpu0[last.self]
        f == fpu[last.self]
    IN  /\ f0.tags[i] = 0 => f.regs[i] = f0.regs[i]
        /\ (f0.tags[i] # 0 /\ f0.regs[i].variables = {}) => f.regs[i] = ReadBack(f0.regs[i])
        /\ f.tags[i] = 0 <=> f0.tags[i] = 0

\* the tags of the slots i and FpSlots - 1 - i are both empty or both valid
TagsMirrored(f) ==
    \A i \in FpSlotIds : f.tags[i] = 0 <=> f.tags[FpSlots - 1 - i] = 0

\* C39: after setup, a start that executes no instruction and finish on an
\* x86 architecture, a slot whose tag was empty holds the value it held, a
\* slot whose tag was valid holds what egress reads from the register that
\* ingress wrote for it, and a tag is empty exactly when it was
C39_SlotPairing ==
    (FinishedZeroSteps /\ arch[last.self] \in {"X86", "AMD64"}) =>
        \A i \in FpSlotIds : SlotPaired(i)

\* the slots are paired as C39 says when the tags of the slots i and
\* FpSlots - 1 - i agree, and the emptiness of every tag is preserved always
C39_PairedWhenMirrored ==
    (FinishedZeroSteps /\ arch[last.self] \in {"X86", "AMD64"}) =>
        /\ TagsMirrored(last.fpu0[last.self]) => \A i \in FpSlotIds : SlotPaired(i)
        /\ \A i \in FpSlotIds :
               fpu[last.self].tags[i] = 0 <=> last.fpu0[last.self].tags[i] = 0

\* slot 0 was empty and slot FpSlots - 1 valid: slot 0 lost its value to
\* what the emulator register 0 held, which ingress had not written
C39_WitnessOverwritten ==
    /\ FinishedZeroSteps
    /\ arch[last.self] \in {"X86", "AMD64"}
    /\ last.fpu0[last.self].tags[0] = 0
    /\ last.fpu0[last.self].tags[FpSlots - 1] # 0
    /\ fpu[last.self].regs[0] # last.fpu0[last.self].regs[0]

(***************************************************************************)
(* A syscall library whose numbers and names are registered in any order,  *)
(* more than once                                                          *)
(***************************************************************************)
InitMapping ==
    /\ InitCore({[p \in PlugIds |-> StdPlug(p, DefaultCooldowns, NoThresholds)]},
                {[p \in PlugIds |-> {}]},
                {[p \in PlugIds |-> "AMD64"]},
                {[p \in PlugIds |-> ConcRegs]},
                {FlatMemory}, {TRUE}, {[p \in PlugIds |-> NoFpu]})
    /\ libs = NewLibraries("SimSyscallLibrary")

\* the dicts that add_number_mapping_from_dict is called with, as the list of
\* their items: no number is twice in a dict
MappingDicts ==
    {<< <<1, a>> >> : a \in LibNames} \cup {<< <<1, a>>, <<2, b>> >> : a, b \in LibNames}

NextMapping ==
    \/ \E abi \in Abis, number \in SysNos, name \in LibNames :
           LibAddNumberMapping("lib", abi, number, name)
    \/ \E mapping \in MappingDicts : LibAddNumberMappingFromDict("lib", "abi2", mapping)

SpecMapping == InitMapping /\ [][NextMapping]_vars

\* the name that number n has for the ABI has the number n, and the number
\* that a name has has that name
MutuallyInverse(L, l, abi) ==
    /\ \A n \in SysNos :
           ~IsNone(NumberDict(L, l, abi)[n])
               => NameDict(L, l, abi)[Get(NumberDict(L, l, abi)[n])] = Some(n)
    /\ \A name \in LibNames :
           ~IsNone(NameDict(L, l, abi)[name])
               => NumberDict(L, l, abi)[Get(NameDict(L, l, abi)[name])] = Some(name)

\* C40: after any calls of add_number_mapping and add_number_mapping_from_dict
\* the number mapping and the name mapping of every ABI are inverse to each
\* other
C40_MappingsInverse == \A abi \in Abis : MutuallyInverse(libs, "lib", abi)

\* number 1 was registered for f and then for g: the name mapping still has
\* f with the number 1
C40_WitnessStale ==
    /\ libs.op = "add_number_mapping"
    /\ NumberDict(libs, "lib", "abi1") = [n \in SysNos |-> IF n = 1 THEN Some("g") ELSE NoneVal]
    /\ NameDict(libs, "lib", "abi1") = [name \in LibNames |-> Some(1)]

\* one dict registered f for two numbers: the number mapping has both, the
\* name mapping the second
C40_WitnessDict ==
    /\ libs.op = "add_number_mapping_from_dict"
    /\ NumberDict(libs, "lib", "abi2") = [n \in SysNos |-> Some("f")]
    /\ NameDict(libs, "lib", "abi2")["f"] = Some(2)
    /\ IsNone(NameDict(libs, "lib", "abi2")["g"])

====
